---------------------------- MODULE Spec2Model ----------------------------
(***************************************************************************)
(* A model of the Barren Engine packet engine: Connection (the             *)
(* unacknowledged table and the outgoing queue), NetworkManager (send,     *)
(* fragmentation, the receive path and the network thread) and             *)
(* PacketScheduler (the priority queue).                                   *)
(*                                                                         *)
(* Time is a discrete clock `now`; TicksPerSecond ticks make one second.   *)
(* Every std::chrono::steady_clock::now() of one handler reads the same    *)
(* tick: a handler is one atomic step (each of them runs under its mutex). *)
(***************************************************************************)
EXTENDS Integers, Sequences, FiniteSets, TLC

(***************************************************************************)
(* Bounds of the model.                                                    *)
(***************************************************************************)
TicksPerSecond == 1
MaxTime == 3
MaxPackets == 2
MaxSeqIn == 1
MaxSends == 2
MaxFeeds == 2
MaxGarbageId == 0
MaxGarbageIndex == 1
\* The uint32_t message-id counter, narrowed like the sequence counter.
MsgIdModulus == 4
\* PacketScheduler: the constructor's maxQueueSize, the accepted enqueues
\* of a run, the latest deadline and the largest bandwidth value.
MaxQueueSize == 2
MaxEnqueues == 3
MaxDeadline == 2
MaxBandwidth == 1
\* The size of the packets given to enqueuePacket (one MTU).
MaxPacketSize == 1
\* ConnectionManager: the events a run may queue, and the timeoutMs of the
\* valid configuration (in ticks).
MaxEvents == 3
CmTimeout == 2
\* fragmentMessage on its own: payload length, fragment size, message id.
MaxPayloadLen == 6
MaxFragmentSize == 3
MaxMessageId == 2
\* NetworkConfig::fragmentSize (bytes) and NetworkConfig::fragmentTimeout
\* (in ticks): the configuration the application passes to initialize.
fragmentSize == 2
fragmentTimeout == 2
\* NetworkConfig::keepAliveInterval, in ticks.
keepAliveInterval == 1
\* The uint32_t sequence counter wraps at 2^32; the model counts modulo
\* SeqModulus, a narrower width, so that the wrap stays within reach.
SeqModulus == 4
\* The frames the call stack holds.
MaxCallDepth == 3
\* VirtualSocket: the sendTo calls of a run that make a packet, the MTU and
\* the threads that call sendTo.
MaxVsSends == 3
MaxMtu == 2
MaxThreads == 2
MaxMhQueueSize == 2
MaxMhSends == 3
MaxMhEvents == 4
MaxMhThreadSends == 2
MaxStateEvents == 2
MaxReceived == 2
maxRetries == 1
Threads == 1..MaxThreads
NoMhMessage == [id |-> 0, retryCount |-> 0]
Mutexes == {"packetMutex_", "connectionsMutex_"}
\* The bytes of an IV (all alike) and the indeterminate values a run draws.
MaxIvByte == 1
MaxIndeterminate == 1

(***************************************************************************)
(* Program constants.                                                      *)
(***************************************************************************)
\* Connection::RESEND_TIMEOUT = 0.1f, in tenths of a second.
RESEND_TIMEOUT_TENTHS == 1
\* Connection::MAX_RESEND_ATTEMPTS (declared, used by no code).
MAX_RESEND_ATTEMPTS == 5
\* sizeof(uint32_t)
SizeofU32 == 4

VARIABLES
    now,                      \* std::chrono::steady_clock, in ticks
    \* ---- NetworkManager: the network thread
    running_,                 \* NetworkManager::running_
    connections_,             \* the client ids of NetworkManager::connections_
    loopPc,                   \* position of the thread inside networkLoop
    bytesSent_,               \* NetworkManager::bytesSent_
    \* ---- Connection (connections_[0])
    nextSequenceNumber_,
    unacknowledgedPackets_,   \* sequence number -> Packet
    outgoingPackets_,         \* queue of Packet
    lastStatsUpdate_,
    packetLoss_,              \* in packets lost per packet sent; 0 while packetsSent_ = 0
    packetsSent_,
    packetsReceived_,
    packetsLost_,
    \* ---- history of the Connection, for the claims
    queued,                   \* sequence number -> reliability, every queuePacket call
    sendCount,                \* sequence number -> times returned by getPacketsToSend
    acked,                    \* sequence numbers whose ack has been processed
    \* ---- NetworkManager: send and the receive path
    nextMessageId_,
    messageQueue_,            \* queue of NetworkMessage
    fragmentMap_,             \* message id -> FragmentInfo
    lastActivity_,            \* client id -> instant
    nmFault,                  \* the process died in an out-of-bounds vector access
    \* ---- history of the NetworkManager, for the claims
    sends,                    \* the messages given to send(), in call order
    wire,                     \* what send() produced for the socket, in order
    fed,                      \* wire index -> times given to processIncomingData
    enqueued,                 \* every message pushed on messageQueue_, in order
    completions,              \* every fragment group reported complete
    recvOk,                   \* what the last receive call returned
    recvMsg,                  \* the caller's message object given to receive
    received,                 \* history: the messages receive handed out, in order
    \* ---- PacketScheduler
    packetQueue_,             \* the packets of the std::priority_queue
    currentBandwidth_,
    maxBandwidth_,
    schedStuck,               \* queueMutex_ is held by a call that never returns
    deq,                      \* what the last dequeuePacket call returned
    enqRet,                   \* what the last enqueuePacket call returned
    enqueueCount,             \* history: enqueuePacket calls that were accepted
    released,                 \* history: tick -> bytes dequeuePacket returned at
                              \* it while a maximum bandwidth was set
    \* ---- ConnectionManager
    cmRunning_,               \* ConnectionManager::running_
    monitoring_,
    config_,                  \* ConnectionManager::config_
    connectionStates_,        \* address -> ConnectionState
    connectionStats_,         \* address -> ConnectionStats
    eventQueue_,              \* queue of ConnectionEvent
    cmRet,                    \* what the last ConnectionManager call returned
    cmInitialized,            \* history: an initialize call has returned true
    connectedAt,              \* history: address -> instant of its last connect
    \* ---- a call of NetworkManager::fragmentMessage on its own
    fragIn,                   \* the message
    fragSizeIn,               \* config_.fragmentSize
    fragDone,                 \* the call has returned
    fragOut,                  \* the fragments it returned
    \* ---- a datagram under compression and encryption
    codecConfig,              \* NetworkManager::config_: compression, encryption
    codecPayload,             \* the data of the message given to send
    codecPc,                  \* how far the datagram has come
    codecPacket,              \* the datagram: what processOutgoingData returned
    codecAltered,             \* history: the network has changed the datagram
    codecResult,              \* what processIncomingData made of the datagram
    compressRet,              \* what a call of Compression::compress returned
    \* ---- ConnectionManager::stop, step by step
    connectionsMutex_,        \* the thread that holds it, or "free"
    stopPc,                   \* the position of the thread inside stop
    stopTodo,                 \* the entries the loop of stop has yet to visit
    \* ---- the mutexes of Connection and ConnectionManager
    mutexOwner,               \* mutex -> the thread that holds it, or 0
    threadOp,                 \* thread -> the operation it is inside
    threadPos,                \* thread -> its next step in the operation
    \* ---- ConnectionManager calls taken in steps
    cmPc,                     \* thread -> its place in its ConnectionManager call
    cmArg,                    \* thread -> the address of the call
    \* ---- VirtualSocket: the connection flags, the receive queue, returns
    isConnected_,
    isListening_,
    receiveQueue_,
    vsRet,                    \* the last return of a VirtualSocket call
    \* ---- MessageHandler
    mhRunning_,               \* running_
    mhMessageQueue_,          \* messageQueue_
    mhMaxQueueSize,           \* config_.maxQueueSize
    mhEnableValidation,       \* config_.enableValidation
    mhQueueMutex_,            \* the thread that holds queueMutex_, or 0
    mhEvents,                 \* the events handed to eventCallback_, in order
    mhPc,                     \* thread -> its place in its MessageHandler call
    mhArg,                    \* thread -> the message of the call
    mhSize,                   \* thread -> the size given to setQueueSize
    mhRet,                    \* the last return of a MessageHandler call
    mhNextId,                 \* the number of messages made by the callers so far
    \* ---- VirtualSocket
    isBound_,
    simulationEnabled_,
    networkCondition_,
    sendQueues_,              \* priority -> queue of Packet
    statistics_,
    sequenceCounter,          \* the static counter of generateSequenceNumber
    lastBandwidthUpdate_,
    bytesInCurrentWindow_,
    vsPc,                     \* thread -> its position inside sendTo
    vsPacket,                 \* thread -> the local Packet of its sendTo call
    vsSteps,                  \* history: sequence number -> the simulation
                              \* steps its packet went through, in order
    vsDropped                 \* history: the sequence numbers that were dropped

loopVars == <<running_, connections_, loopPc, bytesSent_>>
connVars == <<nextSequenceNumber_, unacknowledgedPackets_, outgoingPackets_,
              lastStatsUpdate_, packetLoss_, packetsSent_, packetsReceived_,
              packetsLost_, queued, sendCount, acked>>
nmVars == <<nextMessageId_, messageQueue_, fragmentMap_, lastActivity_, nmFault,
            sends, wire, fed, enqueued, completions, recvOk, recvMsg, received>>
schedVars == <<packetQueue_, currentBandwidth_, maxBandwidth_, schedStuck, deq,
               enqRet, enqueueCount, released>>
fragVars == <<fragIn, fragSizeIn, fragDone, fragOut>>
cmVars == <<cmRunning_, monitoring_, config_, connectionStates_, connectionStats_,
            eventQueue_, cmRet, cmInitialized, connectedAt>>
stopVars == <<connectionsMutex_, stopPc, stopTodo>>
mhVars == <<mhRunning_, mhMessageQueue_, mhMaxQueueSize, mhEnableValidation,
           mhQueueMutex_, mhEvents, mhPc, mhArg, mhSize, mhRet, mhNextId>>
cmStepVars == <<cmPc, cmArg>>
vsSocketVars == <<isConnected_, isListening_, receiveQueue_, vsRet>>
lockVars == <<mutexOwner, threadOp, threadPos>>
codecVars == <<codecConfig, codecPayload, codecPc, codecPacket, codecAltered,
               codecResult, compressRet>>
vsVars == <<isBound_, simulationEnabled_, networkCondition_, sendQueues_,
            statistics_, sequenceCounter, lastBandwidthUpdate_,
            bytesInCurrentWindow_, vsPc, vsPacket, vsSteps, vsDropped>>
\* What the Connection and the network thread leave alone.
nonConnVars == <<nmVars, schedVars, fragVars, cmVars, vsSocketVars, cmStepVars, mhVars, lockVars, stopVars, codecVars, vsVars>>
\* What NetworkManager's send and receive path leave alone.
nonNmVars == <<connVars, schedVars, fragVars, cmVars, vsSocketVars, cmStepVars, mhVars, lockVars, stopVars, codecVars, vsVars>>
\* What the PacketScheduler leaves alone.
nonSchedVars == <<loopVars, connVars, nmVars, fragVars, cmVars, vsSocketVars, cmStepVars, mhVars, lockVars, stopVars, codecVars,
                  vsVars>>
\* What the ConnectionManager leaves alone.
nonCmVars == <<now, loopVars, connVars, nmVars, schedVars, fragVars,
               codecVars, vsVars, stopVars, lockVars, mhVars, cmStepVars, vsSocketVars>>
\* What the steps of ConnectionManager::stop leave alone.
nonStopVars == <<now, loopVars, connVars, nmVars, schedVars, fragVars,
                 codecVars, vsVars, lockVars, mhVars, cmStepVars, vsSocketVars>>
vars == <<now, loopVars, connVars, nmVars, schedVars, fragVars, cmVars, vsSocketVars, cmStepVars, mhVars, lockVars, stopVars,
          codecVars, vsVars>>

(***************************************************************************)
(* PacketReliability                                                       *)
(***************************************************************************)
PacketReliability ==
    {"UNRELIABLE", "UNRELIABLE_SEQUENCED", "RELIABLE", "RELIABLE_SEQUENCED",
     "RELIABLE_ORDERED"}

ReliableModes == {"RELIABLE", "RELIABLE_SEQUENCED", "RELIABLE_ORDERED"}

(***************************************************************************)
(* The first four bytes of a packet hold its sequence number in host byte  *)
(* order (little-endian hosts).                                            *)
(***************************************************************************)
EncodeU32(n) ==
    <<n % 256, (n \div 256) % 256, (n \div 65536) % 256, (n \div 16777216) % 256>>

DecodeU32(data) ==
    data[1] + 256 * data[2] + 65536 * data[3] + 16777216 * data[4]

(***************************************************************************)
(* Small helpers on finite maps (std::unordered_map, std::map).            *)
(***************************************************************************)
MapPut(m, k, v) == [x \in DOMAIN m \cup {k} |-> IF x = k THEN v ELSE m[x]]

MapErase(m, k) == [x \in DOMAIN m \ {k} |-> m[x]]

EmptyMap == [x \in {} |-> 0]

(***************************************************************************)
(* Connection                                                              *)
(***************************************************************************)
\* duration_cast<seconds>(now - t).count(): whole seconds, truncated.
WholeSeconds(t) == (now - t) \div TicksPerSecond

\* Connection::shouldResendPacket: the integer count of whole seconds is
\* compared with the float 0.1f.
shouldResendPacket(packet) ==
    /\ ~packet.isAcknowledged
    /\ WholeSeconds(packet.lastResendTime) * 10 >= RESEND_TIMEOUT_TENTHS

\* The counter left as it is.
nextSeqStuck(n) == n

\* nextSequenceNumber_++ of Connection::queuePacket.
nextSeq(n) == (n + 1) % SeqModulus

\* Connection::queuePacket, on the Connection's fields.
queuePacketTable(table, seq, data, reliability) ==
    IF reliability = "UNRELIABLE"
    THEN table
    ELSE MapPut(table, seq,
                [sequenceNumber |-> seq, reliability |-> reliability,
                 data |-> data, isAcknowledged |-> FALSE,
                 lastResendTime |-> now])

queuePacketQueue(queue, seq, data, reliability) ==
    IF reliability = "UNRELIABLE"
    THEN Append(queue,
                [sequenceNumber |-> seq, reliability |-> reliability,
                 data |-> data, isAcknowledged |-> FALSE,
                 lastResendTime |-> now])
    ELSE queue

\* Connection::handleAcknowledgment
handleAcknowledgment(table, sequenceNumber) ==
    IF sequenceNumber \in DOMAIN table
    THEN MapErase(table, sequenceNumber)
    ELSE table

\* Connection::resendUnacknowledgedPackets: a packet that is due gets a
\* fresh lastResendTime, every other packet is erased.
resendUnacknowledgedPackets(table) ==
    [s \in {x \in DOMAIN table : shouldResendPacket(table[x])} |->
        [table[s] EXCEPT !.lastResendTime = now]]

\* Connection::updateStatistics
updateStatistics(loss) ==
    IF packetsSent_ > 0 THEN packetsLost_ \div packetsSent_ ELSE loss

ConnExists == 0 \in connections_

\* The queuePacket calls of a run: MaxPackets of them, or, for the runs that
\* take the counter through its wrap, one more than the counter has values.
QueueBudget == Cardinality(DOMAIN queued) < MaxPackets

WrapBudget == Cardinality(DOMAIN queued) < SeqModulus \/ nextSequenceNumber_ = 0

\* Connection::queuePacket(data, reliability), called by the application.
QueuePacket(data, reliability) ==
    /\ ConnExists
    /\ nextSequenceNumber_' = nextSeq(nextSequenceNumber_)
    /\ unacknowledgedPackets_' =
          queuePacketTable(unacknowledgedPackets_, nextSequenceNumber_, data, reliability)
    /\ outgoingPackets_' =
          queuePacketQueue(outgoingPackets_, nextSequenceNumber_, data, reliability)
    /\ queued' = MapPut(queued, nextSequenceNumber_, reliability)
    /\ sendCount' = MapPut(sendCount, nextSequenceNumber_, 0)
    /\ UNCHANGED <<now, loopVars, lastStatsUpdate_, packetLoss_, packetsSent_,
                   packetsReceived_, packetsLost_, acked>>
    /\ UNCHANGED nonConnVars

\* Connection::processIncomingPacket(data): a packet shorter than four bytes
\* is refused; otherwise an ack carrying the packet's sequence number is
\* queued (UNRELIABLE), the receive counter advances, and a packet of
\* exactly four bytes is handled as an ack.
ProcessIncomingPacket(data) ==
    /\ ConnExists
    /\ UNCHANGED nonConnVars
    /\ IF Len(data) < SizeofU32
       THEN UNCHANGED <<now, loopVars, connVars>>
       ELSE LET sequenceNumber == DecodeU32(data)
                ackData == EncodeU32(sequenceNumber)
            IN  /\ nextSequenceNumber_' = nextSeq(nextSequenceNumber_)
                /\ outgoingPackets_' =
                      queuePacketQueue(outgoingPackets_, nextSequenceNumber_,
                                       ackData, "UNRELIABLE")
                /\ queued' = MapPut(queued, nextSequenceNumber_, "UNRELIABLE")
                /\ sendCount' = MapPut(sendCount, nextSequenceNumber_, 0)
                /\ packetsReceived_' = packetsReceived_ + 1
                /\ IF Len(data) = SizeofU32
                   THEN /\ unacknowledgedPackets_' =
                              handleAcknowledgment(unacknowledgedPackets_, sequenceNumber)
                        /\ acked' = acked \cup {sequenceNumber}
                   ELSE UNCHANGED <<unacknowledgedPackets_, acked>>
                /\ UNCHANGED <<now, loopVars, lastStatsUpdate_, packetLoss_,
                               packetsSent_, packetsLost_>>

(***************************************************************************)
(* NetworkManager: connect and the network thread.                         *)
(***************************************************************************)
\* NetworkManager::connect: creates connections_[0] and starts the thread.
\* (A second call while the thread is joinable would std::terminate.)
Connect ==
    /\ ~running_
    /\ loopPc = "idle"
    /\ connections_' = connections_ \cup {0}
    /\ running_' = TRUE
    /\ loopPc' = "update"
    /\ UNCHANGED <<now, bytesSent_, connVars, nonConnVars>>

\* networkLoop: connection->update(0.016f)
LoopUpdate ==
    /\ running_
    /\ loopPc = "update"
    /\ IF ConnExists
       THEN /\ IF WholeSeconds(lastStatsUpdate_) >= 1
               THEN /\ packetLoss_' = updateStatistics(packetLoss_)
                    /\ lastStatsUpdate_' = now
               ELSE UNCHANGED <<packetLoss_, lastStatsUpdate_>>
            /\ unacknowledgedPackets_' =
                  resendUnacknowledgedPackets(unacknowledgedPackets_)
       ELSE UNCHANGED <<packetLoss_, lastStatsUpdate_, unacknowledgedPackets_>>
    /\ loopPc' = "getPackets"
    /\ UNCHANGED <<now, running_, connections_, bytesSent_, nextSequenceNumber_,
                   outgoingPackets_, packetsSent_, packetsReceived_,
                   packetsLost_, queued, sendCount, acked>>
    /\ UNCHANGED nonConnVars

RECURSIVE SumSizes(_)
SumSizes(packets) ==
    IF packets = <<>> THEN 0
    ELSE Len(Head(packets).data) + SumSizes(Tail(packets))

RECURSIVE SumSizesOf(_, _)
SumSizesOf(table, keys) ==
    IF keys = {} THEN 0
    ELSE LET k == CHOOSE x \in keys : TRUE
         IN  Len(table[k].data) + SumSizesOf(table, keys \ {k})

\* networkLoop: connection->getPacketsToSend() and the byte count of what
\* it returned.  getPacketsToSend returns every unacknowledged packet that
\* is due (refreshing its lastResendTime) and drains the outgoing queue.
LoopGetPackets ==
    /\ running_
    /\ loopPc = "getPackets"
    /\ IF ConnExists
       THEN LET due == {s \in DOMAIN unacknowledgedPackets_ :
                            shouldResendPacket(unacknowledgedPackets_[s])}
                out == {outgoingPackets_[i].sequenceNumber :
                            i \in 1..Len(outgoingPackets_)}
            IN  /\ unacknowledgedPackets_' =
                      [s \in DOMAIN unacknowledgedPackets_ |->
                          IF s \in due
                          THEN [unacknowledgedPackets_[s] EXCEPT !.lastResendTime = now]
                          ELSE unacknowledgedPackets_[s]]
                /\ outgoingPackets_' = <<>>
                /\ sendCount' =
                      [s \in DOMAIN sendCount |->
                          IF s \in due \cup out THEN sendCount[s] + 1 ELSE sendCount[s]]
                /\ bytesSent_' = bytesSent_
                                   + SumSizesOf(unacknowledgedPackets_, due)
                                   + SumSizes(outgoingPackets_)
       ELSE UNCHANGED <<unacknowledgedPackets_, outgoingPackets_, sendCount, bytesSent_>>
    /\ loopPc' = "sleep"
    /\ UNCHANGED <<now, running_, connections_, nextSequenceNumber_,
                   lastStatsUpdate_, packetLoss_, packetsSent_, packetsReceived_,
                   packetsLost_, queued, acked>>
    /\ UNCHANGED nonConnVars

\* networkLoop: updateStatistics() and the 1 ms sleep, then the next round.
LoopSleep ==
    /\ running_
    /\ loopPc = "sleep"
    /\ loopPc' = "update"
    /\ UNCHANGED <<now, running_, connections_, bytesSent_, connVars, nonConnVars>>

\* The clock advances.
Tick ==
    /\ now < MaxTime
    /\ now' = now + 1
    /\ UNCHANGED <<loopVars, connVars, nonConnVars>>

(***************************************************************************)
(* NetworkManager: send, fragmentation and the receive path.               *)
(* NetworkConfig: compression and encryption are off, so that              *)
(* processOutgoingData and the first half of processIncomingData hand the  *)
(* bytes through.                                                          *)
(***************************************************************************)
enableCompression == FALSE
enableEncryption == FALSE

Min(a, b) == IF a < b THEN a ELSE b

\* fragmentMessage with the fragment count rounded down.
fragmentMessageRoundedDown(message, fragSize) ==
    LET totalFragments == Len(message.data) \div fragSize
    IN  [i \in 1..totalFragments |->
            [data |-> SubSeq(message.data, (i - 1) * fragSize + 1,
                             Min((i - 1) * fragSize + fragSize, Len(message.data))),
             reliability |-> message.reliability,
             messageId |-> message.messageId,
             fragmentIndex |-> i - 1,
             totalFragments |-> totalFragments,
             isFragment |-> TRUE]]

\* NetworkManager::fragmentMessage, with config_.fragmentSize as parameter.
fragmentMessage(message, fragSize) ==
    LET totalFragments == (Len(message.data) + fragSize - 1) \div fragSize
    IN  [i \in 1..totalFragments |->
            [data |-> SubSeq(message.data, (i - 1) * fragSize + 1,
                             Min((i - 1) * fragSize + fragSize, Len(message.data))),
             reliability |-> message.reliability,
             messageId |-> message.messageId,
             fragmentIndex |-> i - 1,
             totalFragments |-> totalFragments,
             isFragment |-> TRUE]]

\* NetworkManager::reassembleFragments: the data of the fragments vector,
\* concatenated in vector order.
RECURSIVE reassembleData(_)
reassembleData(fragments) ==
    IF fragments = <<>> THEN <<>>
    ELSE Head(fragments).data \o reassembleData(Tail(fragments))

\* NetworkManager::isFragmentComplete
isFragmentComplete(fragmentInfo) ==
    fragmentInfo.receivedFragments = fragmentInfo.totalFragments

\* NetworkManager::processOutgoingData (compression and encryption off).
processOutgoingData(data) == data

\* The tail of NetworkManager::send, after the fragmentation test: the
\* processed bytes go to the socket and are counted; an empty result is an
\* error (-1).  st = [id, wire, bytes, ok] is the state send works on.
sendPacket(st, msg, call) ==
    LET processedData == processOutgoingData(msg.data)
    IN  IF processedData = <<>>
        THEN [st EXCEPT !.ok = FALSE]
        ELSE [st EXCEPT !.wire = Append(@, [data |-> processedData,
                                            msg |-> msg, call |-> call]),
                        !.bytes = @ + Len(processedData)]

\* NetworkManager::send: a message whose id is 0 takes the next id of the
\* counter; a payload larger than fragmentSize is fragmented and send is
\* called on every fragment in turn, stopping at the first failure.
RECURSIVE send(_, _, _, _)
RECURSIVE sendFragments(_, _, _, _)
send(st, message, fragSize, call) ==
    LET id1 == IF message.messageId = 0
               THEN (st.id + 1) % MsgIdModulus ELSE st.id
        msg == IF message.messageId = 0
               THEN [message EXCEPT !.messageId = id1] ELSE message
        st1 == [st EXCEPT !.id = id1]
    IN  IF Len(msg.data) > fragSize
        THEN sendFragments(st1, fragmentMessage(msg, fragSize), fragSize, call)
        ELSE sendPacket(st1, msg, call)

sendFragments(st, fragments, fragSize, call) ==
    IF fragments = <<>> THEN st
    ELSE LET st1 == send(st, Head(fragments), fragSize, call)
         IN  IF ~st1.ok THEN st1
             ELSE sendFragments(st1, Tail(fragments), fragSize, call)

\* NetworkManager::startServer: starts the thread, no connection.
StartServer ==
    /\ ~running_
    /\ loopPc = "idle"
    /\ running_' = TRUE
    /\ loopPc' = "update"
    /\ UNCHANGED <<now, connections_, bytesSent_, connVars, nonConnVars>>

\* A call of NetworkManager::send(message) by the application.
Send(message) ==
    /\ ~nmFault
    /\ IF ~running_
       THEN UNCHANGED <<nextMessageId_, wire, bytesSent_, sends>>
       ELSE LET st == send([id |-> nextMessageId_, wire |-> wire,
                            bytes |-> bytesSent_, ok |-> TRUE],
                           message, fragmentSize, Len(sends) + 1)
            IN  /\ nextMessageId_' = st.id
                /\ wire' = st.wire
                /\ bytesSent_' = st.bytes
                /\ sends' = Append(sends, message)
    /\ UNCHANGED <<now, running_, connections_, loopPc, messageQueue_,
                   fragmentMap_, lastActivity_, nmFault, fed, enqueued,
                   completions, recvOk, recvMsg, received, nonNmVars>>

FedCount(i) == IF i \in DOMAIN fed THEN fed[i] ELSE 0

RECURSIVE SumCounts(_, _)
SumCounts(f, keys) ==
    IF keys = {} THEN 0
    ELSE LET k == CHOOSE x \in keys : TRUE
         IN  f[k] + SumCounts(f, keys \ {k})

FedTotal == SumCounts(fed, DOMAIN fed)

\* The FragmentInfo that fragmentMap_[messageId] names: std::map::operator[]
\* makes a value-initialised one when the id is new.
FragmentInfoAt(messageId) ==
    IF messageId \in DOMAIN fragmentMap_
    THEN fragmentMap_[messageId]
    ELSE [fragments |-> <<>>, timestamp |-> 0, totalFragments |-> 0,
          receivedFragments |-> 0, seen |-> {}]

\* NetworkManager::processIncomingData(data, clientId) for the wire packet
\* of index i (i = 0: an empty datagram).  The NetworkMessage it builds is
\* default-initialised: only data and timestamp are assigned, so isFragment,
\* messageId, fragmentIndex and totalFragments are indeterminate values,
\* here isFrag, mid, idx and tot.  Nothing ever adds an element to
\* FragmentInfo::fragments, so fragments[fragmentIndex] and fragments[0] are
\* out-of-bounds accesses of an empty vector: the process dies (fault), or
\* goes on with the vector still empty and, for the read, an indeterminate
\* message id (rid).  The field seen is history: the fragment indices the
\* group was given.
ProcessIncomingData(i, clientId, isFrag, mid, idx, tot, fault, rid) ==
    LET data == IF i = 0 THEN <<>> ELSE wire[i].data
        info0 == FragmentInfoAt(mid)
        info1 == IF info0.fragments = <<>>
                 THEN [info0 EXCEPT !.timestamp = now, !.totalFragments = tot,
                                    !.receivedFragments = 0]
                 ELSE info0
        info2 == [info1 EXCEPT !.receivedFragments = @ + 1,
                               !.seen = @ \cup {idx}]
        complete == isFragmentComplete(info2)
        message == IF isFrag THEN [data |-> reassembleData(info2.fragments)]
                   ELSE [data |-> data]
    IN  /\ ~nmFault
        /\ FedTotal < MaxFeeds
        /\ fed' = MapPut(fed, i, FedCount(i) + 1)
        /\ IF data = <<>>
           THEN UNCHANGED <<messageQueue_, fragmentMap_, lastActivity_, nmFault,
                            enqueued, completions>>
           ELSE IF isFrag /\ fault
           THEN /\ nmFault' = TRUE
                /\ UNCHANGED <<messageQueue_, fragmentMap_, lastActivity_,
                               enqueued, completions>>
           ELSE IF isFrag /\ ~complete
           THEN /\ fragmentMap_' = MapPut(fragmentMap_, mid, info2)
                /\ UNCHANGED <<messageQueue_, lastActivity_, nmFault, enqueued,
                               completions>>
           ELSE /\ fragmentMap_' =
                      IF isFrag
                      THEN MapErase(MapPut(fragmentMap_, mid, info2), rid)
                      ELSE fragmentMap_
                /\ completions' =
                      IF isFrag
                      THEN completions \cup
                             {[messageId |-> mid, totalFragments |-> tot,
                               seen |-> info2.seen]}
                      ELSE completions
                /\ lastActivity_' = MapPut(lastActivity_, clientId, now)
                /\ messageQueue_' = Append(messageQueue_, message)
                /\ enqueued' = Append(enqueued, [idx |-> i, data |-> message.data])
                /\ UNCHANGED nmFault
        /\ UNCHANGED <<now, loopVars, nextMessageId_, sends, wire, recvOk,
                       recvMsg, received, nonNmVars>>

\* receive taking the newest message of the queue.
back(queue) == queue[Len(queue)]

\* std::queue::front
front(queue) == Head(queue)

\* NetworkManager::receive(message): false on an empty queue, the caller's
\* message left alone; else the front message is copied to it and popped.
Receive ==
    /\ ~nmFault
    /\ IF messageQueue_ = <<>>
       THEN /\ recvOk' = FALSE
            /\ UNCHANGED <<messageQueue_, recvMsg, received>>
       ELSE /\ recvMsg' = front(messageQueue_)
            /\ messageQueue_' = Tail(messageQueue_)
            /\ received' = Append(received, front(messageQueue_))
            /\ recvOk' = TRUE
    /\ UNCHANGED <<now, loopVars, nextMessageId_, fragmentMap_, lastActivity_,
                   nmFault, sends, wire, fed, enqueued, completions, nonNmVars>>

\* NetworkManager::cleanupExpiredFragments.  No code of the repository
\* calls it: networkLoop does not, and it is private.
cleanupExpiredFragments(map) ==
    [m \in {x \in DOMAIN map : ~(now - map[x].timestamp >= fragmentTimeout)} |->
        map[m]]

\* NetworkManager::handleKeepAlive, for the instant lastKeepAlive of the
\* last keep-alive: once the interval has passed it gives send a message of
\* one zero byte.  No code of the repository calls it: networkLoop does
\* not, and it is private.
handleKeepAlive(lastKeepAlive) ==
    IF now - lastKeepAlive >= keepAliveInterval
    THEN <<[data |-> <<0>>, reliability |-> "RELIABLE", messageId |-> 0,
            fragmentIndex |-> 0, totalFragments |-> 0, isFragment |-> FALSE]>>
    ELSE <<>>

(***************************************************************************)
(* PacketScheduler                                                         *)
(***************************************************************************)
PacketPriority == 0..4   \* CRITICAL = 0, HIGH, MEDIUM, LOW, BACKGROUND = 4

NoPacket == [id |-> 0, priority |-> 0, deadline |-> 0, size |-> 0]

\* operator< with the priority comparison turned round.
LessReversed(a, b) ==
    IF a.priority # b.priority
    THEN a.priority < b.priority
    ELSE a.deadline > b.deadline

\* PrioritizedPacket::operator<: a < b when a is of lower priority (a larger
\* enum value), or of the same priority with a later deadline.
Less(a, b) ==
    IF a.priority # b.priority
    THEN a.priority > b.priority
    ELSE a.deadline > b.deadline

\* std::priority_queue::top: a packet no other packet is greater than; which
\* one of several equal packets is not specified.
Tops(queue) == {p \in queue : \A r \in queue : ~Less(p, r)}

\* PacketScheduler::dequeuePacket on a queue: the possible results.  An
\* empty queue gives false.  An expired top packet is popped and the
\* function calls itself while it holds queueMutex_, a std::mutex: locking
\* it again in the same thread is undefined; the call blocks for ever
\* ("deadlock"), or the lock is taken again and the call goes on.
RECURSIVE dequeueOutcomes(_)
dequeueOutcomes(queue) ==
    IF queue = {}
    THEN {[kind |-> "false", queue |-> queue, packet |-> NoPacket]}
    ELSE UNION
           {IF t.deadline < now
            THEN {[kind |-> "deadlock", queue |-> queue \ {t}, packet |-> NoPacket]}
                   \cup dequeueOutcomes(queue \ {t})
            ELSE {[kind |-> "true", queue |-> queue \ {t}, packet |-> t]}
            : t \in Tops(queue)}

\* The capacity test with the comparison made strict.
queueFullStrict(size) == size > MaxQueueSize

\* enqueuePacket's capacity test: packetQueue_.size() >= maxQueueSize_
queueFull(size) == size >= MaxQueueSize

\* PacketScheduler::enqueuePacket(data, metadata): refused when the queue
\* holds maxQueueSize_ packets.
EnqueuePacket(priority, deadline, size) ==
    /\ ~schedStuck
    /\ enqueueCount < MaxEnqueues
    /\ IF queueFull(Cardinality(packetQueue_))
       THEN /\ enqRet' = "false"
            /\ UNCHANGED <<packetQueue_, enqueueCount>>
       ELSE /\ packetQueue_' = packetQueue_ \cup
                  {[id |-> enqueueCount + 1, priority |-> priority,
                    deadline |-> deadline, size |-> size]}
            /\ enqueueCount' = enqueueCount + 1
            /\ enqRet' = "true"
    /\ UNCHANGED <<now, currentBandwidth_, maxBandwidth_, schedStuck, deq,
                   released, nonSchedVars>>

ReleasedAt(t) == IF t \in DOMAIN released THEN released[t] ELSE 0

\* PacketScheduler::dequeuePacket(data, metadata)
DequeuePacket ==
    /\ ~schedStuck
    /\ \E o \in dequeueOutcomes(packetQueue_) :
          /\ packetQueue_' = o.queue
          /\ schedStuck' = (o.kind = "deadlock")
          /\ deq' = [kind |-> o.kind, packet |-> o.packet]
          /\ released' = IF o.kind = "true" /\ maxBandwidth_ > 0
                         THEN MapPut(released, now, ReleasedAt(now) + o.packet.size)
                         ELSE released
    /\ UNCHANGED <<now, currentBandwidth_, maxBandwidth_, enqRet, enqueueCount,
                   nonSchedVars>>

\* PacketScheduler::setMaxBandwidth
SetMaxBandwidth(bandwidth) ==
    /\ maxBandwidth_' = bandwidth
    /\ UNCHANGED <<now, packetQueue_, currentBandwidth_, schedStuck, deq,
                   enqRet, enqueueCount, released, nonSchedVars>>

\* PacketScheduler::updateBandwidthUsage
UpdateBandwidthUsage(bytes) ==
    /\ currentBandwidth_' = bytes
    /\ UNCHANGED <<now, packetQueue_, maxBandwidth_, schedStuck, deq,
                   enqRet, enqueueCount, released, nonSchedVars>>

(***************************************************************************)
(* ConnectionManager                                                       *)
(* An address is the sequence of the numbers std::stoi reads from its      *)
(* dot-separated tokens.                                                   *)
(***************************************************************************)
\* ConnectionManager::validateAddress: four tokens, each within 0..255.
validateAddress(address) ==
    /\ Len(address) = 4
    /\ \A i \in 1..Len(address) : address[i] \in 0..255

\* ConnectionManager::validatePort, on a uint16_t.
validatePort(port) == port > 0 /\ port < 65536

\* ConnectionManager::validateConfig
validateConfig(config) ==
    /\ validateAddress(config.address)
    /\ validatePort(config.port)
    /\ ~(\/ config.timeoutMs = 0
         \/ config.maxRetries = 0
         \/ config.keepAliveIntervalMs = 0
         \/ config.maxPacketSize = 0)

\* config_ before any initialize: the constructor leaves it default-initialised
\* (no modelled operation reads it).
NoConfig ==
    [address |-> <<>>, port |-> 0, timeoutMs |-> 0, maxRetries |-> 0,
     keepAliveIntervalMs |-> 0, maxPacketSize |-> 0]

\* isConnected with every known address taken as connected.
isConnectedAnyKnown(address) == address \in DOMAIN connectionStates_

\* ConnectionManager::isConnected
isConnected(address) ==
    /\ address \in DOMAIN connectionStates_
    /\ connectionStates_[address] = "CONNECTED"

\* ConnectionManager::getConnectionState
getConnectionState(address) ==
    IF address \in DOMAIN connectionStates_
    THEN connectionStates_[address] ELSE "DISCONNECTED"

\* ConnectionManager::handleConnection / handleDisconnection: the event
\* pushed on eventQueue_.
ConnectionEvent(type, address) == [type |-> type, address |-> address]

\* ConnectionManager::initialize
CmInitialize(config) ==
    /\ IF validateConfig(config)
       THEN /\ config_' = config
            /\ cmInitialized' = TRUE
            /\ cmRet' = [op |-> "initialize", value |-> TRUE]
       ELSE /\ cmRet' = [op |-> "initialize", value |-> FALSE]
            /\ UNCHANGED <<config_, cmInitialized>>
    /\ UNCHANGED <<cmRunning_, monitoring_, connectionStates_, connectionStats_,
                   eventQueue_, connectedAt, nonCmVars>>

\* ConnectionManager::start
CmStart ==
    /\ cmRunning_' = TRUE
    /\ cmRet' = [op |-> "start", value |-> TRUE]
    /\ UNCHANGED <<monitoring_, config_, connectionStates_, connectionStats_,
                   eventQueue_, cmInitialized, connectedAt, nonCmVars>>

\* ConnectionManager::stop: running_ is cleared first, so that the
\* disconnect calls of its loop return at once; then the map is cleared.
CmStop ==
    /\ cmRunning_
    /\ cmRunning_' = FALSE
    /\ monitoring_' = FALSE
    /\ connectionStates_' = EmptyMap
    /\ cmRet' = [op |-> "stop", value |-> TRUE]
    /\ UNCHANGED <<config_, connectionStats_, eventQueue_, cmInitialized,
                   connectedAt, nonCmVars>>

\* ConnectionManager::startMonitoring
StartMonitoring ==
    /\ cmRunning_
    /\ monitoring_' = TRUE
    /\ UNCHANGED <<cmRunning_, config_, connectionStates_, connectionStats_,
                   eventQueue_, cmRet, cmInitialized, connectedAt, nonCmVars>>

\* ConnectionManager::connect: the attempt itself always succeeds
\* (bool success = true).
CmConnect(address, port) ==
    /\ Len(eventQueue_) < MaxEvents
    /\ IF ~cmRunning_ \/ ~validateAddress(address) \/ ~validatePort(port)
       THEN /\ cmRet' = [op |-> "connect", value |-> FALSE]
            /\ UNCHANGED <<connectionStates_, eventQueue_, connectedAt>>
       ELSE IF isConnected(address)
       THEN /\ cmRet' = [op |-> "connect", value |-> TRUE]
            /\ UNCHANGED <<connectionStates_, eventQueue_, connectedAt>>
       ELSE /\ connectionStates_' = MapPut(connectionStates_, address, "CONNECTED")
            /\ eventQueue_' = Append(eventQueue_, ConnectionEvent("CONNECTED", address))
            /\ connectedAt' = MapPut(connectedAt, address, now)
            /\ cmRet' = [op |-> "connect", value |-> TRUE]
    /\ UNCHANGED <<cmRunning_, monitoring_, config_, connectionStats_,
                   cmInitialized, nonCmVars>>

\* ConnectionManager::disconnect: connectionStates_[address] makes a
\* DISCONNECTED entry for an address the map does not hold.
CmDisconnect(address) ==
    /\ cmRunning_
    /\ Len(eventQueue_) < MaxEvents
    /\ connectionStates_' = MapPut(connectionStates_, address, "DISCONNECTED")
    /\ eventQueue_' =
          IF isConnected(address)
          THEN Append(eventQueue_, ConnectionEvent("DISCONNECTED", address))
          ELSE eventQueue_
    /\ cmRet' = [op |-> "disconnect", value |-> TRUE]
    /\ UNCHANGED <<cmRunning_, monitoring_, config_, connectionStats_,
                   cmInitialized, connectedAt, nonCmVars>>

\* ConnectionManager::handleDataSent: the statistics of an address are
\* updated only when connectionStats_ already holds an entry for it.
handleDataSent(stats, address, data) ==
    IF address \in DOMAIN stats
    THEN [stats EXCEPT ![address] =
            [bytesSent |-> @.bytesSent + Len(data),
             packetsSent |-> @.packetsSent + 1,
             lastActivity |-> now]]
    ELSE stats

\* ConnectionManager::send
CmSend(address, data) ==
    /\ IF ~cmRunning_ \/ ~isConnected(address)
       THEN /\ cmRet' = [op |-> "send", value |-> FALSE]
            /\ UNCHANGED connectionStats_
       ELSE /\ connectionStats_' = handleDataSent(connectionStats_, address, data)
            /\ cmRet' = [op |-> "send", value |-> TRUE]
    /\ UNCHANGED <<cmRunning_, monitoring_, config_, connectionStates_,
                   eventQueue_, cmInitialized, connectedAt, nonCmVars>>

(***************************************************************************)
(* A call of NetworkManager::fragmentMessage on its own.                   *)
(***************************************************************************)
FragmentCall ==
    /\ ~fragDone
    /\ fragOut' = fragmentMessage(fragIn, fragSizeIn)
    /\ fragDone' = TRUE
    /\ UNCHANGED <<now, loopVars, connVars, nmVars, schedVars, cmVars, vsSocketVars, cmStepVars, mhVars, lockVars, stopVars, codecVars,
                   vsVars, fragIn, fragSizeIn>>

(***************************************************************************)
(* Crypto: the block cipher and its modes, on bytes (0..255).              *)
(***************************************************************************)
BLOCK_SIZE == 16
GCM_TAG_SIZE == 16
IV_SIZE == 12

\* The S-box, the inverse S-box and the round constants.
SBOX ==
    <<
      99, 124, 119, 123, 242, 107, 111, 197, 48, 1, 103, 43, 254, 215, 171, 118,
      202, 130, 201, 125, 250, 89, 71, 240, 173, 212, 162, 175, 156, 164, 114, 192,
      183, 253, 147, 38, 54, 63, 247, 204, 52, 165, 229, 241, 113, 216, 49, 21,
      4, 199, 35, 195, 24, 150, 5, 154, 7, 18, 128, 226, 235, 39, 178, 117,
      9, 131, 44, 26, 27, 110, 90, 160, 82, 59, 214, 179, 41, 227, 47, 132,
      83, 209, 0, 237, 32, 252, 177, 91, 106, 203, 190, 57, 74, 76, 88, 207,
      208, 239, 170, 251, 67, 77, 51, 133, 69, 249, 2, 127, 80, 60, 159, 168,
      81, 163, 64, 143, 146, 157, 56, 245, 188, 182, 218, 33, 16, 255, 243, 210,
      205, 12, 19, 236, 95, 151, 68, 23, 196, 167, 126, 61, 100, 93, 25, 115,
      96, 129, 79, 220, 34, 42, 144, 136, 70, 238, 184, 20, 222, 94, 11, 219,
      224, 50, 58, 10, 73, 6, 36, 92, 194, 211, 172, 98, 145, 149, 228, 121,
      231, 200, 55, 109, 141, 213, 78, 169, 108, 86, 244, 234, 101, 122, 174, 8,
      186, 120, 37, 46, 28, 166, 180, 198, 232, 221, 116, 31, 75, 189, 139, 138,
      112, 62, 181, 102, 72, 3, 246, 14, 97, 53, 87, 185, 134, 193, 29, 158,
      225, 248, 152, 17, 105, 217, 142, 148, 155, 30, 135, 233, 206, 85, 40, 223,
      140, 161, 137, 13, 191, 230, 66, 104, 65, 153, 45, 15, 176, 84, 187, 22
    >>

INV_SBOX ==
    <<
      82, 9, 106, 213, 48, 54, 165, 56, 191, 64, 163, 158, 129, 243, 215, 251,
      124, 227, 57, 130, 155, 47, 255, 135, 52, 142, 67, 68, 196, 222, 233, 203,
      84, 123, 148, 50, 166, 194, 35, 61, 238, 76, 149, 11, 66, 250, 195, 78,
      8, 46, 161, 102, 40, 217, 36, 178, 118, 91, 162, 73, 109, 139, 209, 37,
      114, 248, 246, 100, 134, 104, 152, 22, 212, 164, 92, 204, 93, 101, 182, 146,
      108, 112, 72, 80, 253, 237, 185, 218, 94, 21, 70, 87, 167, 141, 157, 132,
      144, 216, 171, 0, 140, 188, 211, 10, 247, 228, 88, 5, 184, 179, 69, 6,
      208, 44, 30, 143, 202, 63, 15, 2, 193, 175, 189, 3, 1, 19, 138, 107,
      58, 145, 17, 65, 79, 103, 220, 234, 151, 242, 207, 206, 240, 180, 230, 115,
      150, 172, 116, 34, 231, 173, 53, 133, 226, 249, 55, 232, 28, 117, 223, 110,
      71, 241, 26, 113, 29, 41, 197, 137, 111, 183, 98, 14, 170, 24, 190, 27,
      252, 86, 62, 75, 198, 210, 121, 32, 154, 219, 192, 254, 120, 205, 90, 244,
      31, 221, 168, 51, 136, 7, 199, 49, 177, 18, 16, 89, 39, 128, 236, 95,
      96, 81, 127, 169, 25, 181, 74, 13, 45, 229, 122, 159, 147, 201, 156, 239,
      160, 224, 59, 77, 174, 42, 245, 176, 200, 235, 187, 60, 131, 83, 153, 97,
      23, 43, 4, 126, 186, 119, 214, 38, 225, 105, 20, 99, 85, 33, 12, 125
    >>

RCON == <<1, 2, 4, 8, 16, 32, 64, 128, 27, 54>>

\* (Below, a one-element set names a value that the expression after it
\* uses many times, so that the value is computed once.)
\* a ^ b on uint8_t
RECURSIVE Xor(_, _)
Xor(a, b) ==
    IF a = 0 THEN b
    ELSE IF b = 0 THEN a
    ELSE ((a + b) % 2) + 2 * Xor(a \div 2, b \div 2)

\* static_cast<uint8_t>(s << 1)
Shl1(s) == (2 * s) % 256

\* Crypto::xorBlocks
xorBlocks(dest, src) ==
    CHOOSE r \in {[i \in 1..BLOCK_SIZE |-> Xor(d[i], s[i])] :
                    d \in {dest}, s \in {src}} : TRUE

\* std::rotate(begin + first, begin + middle, begin + last) on a block.
rotate(block, first, middle, last) ==
    CHOOSE r \in
      {[i \in 1..BLOCK_SIZE |->
          IF i - 1 >= first /\ i - 1 < last
          THEN b[first + ((i - 1 - first + middle - first) % (last - first)) + 1]
          ELSE b[i]] : b \in {block}} : TRUE

\* The SubBytes loop of encryptBlock and the inverse SubBytes loop of
\* decryptBlock.
SubBytes(block) ==
    CHOOSE r \in {[i \in 1..BLOCK_SIZE |-> SBOX[b[i] + 1]] : b \in {block}} : TRUE

InvSubBytes(block) ==
    CHOOSE r \in {[i \in 1..BLOCK_SIZE |-> INV_SBOX[b[i] + 1]] : b \in {block}} : TRUE

\* The three rotations that encryptBlock calls ShiftRows.
ShiftRows(block) ==
    rotate(rotate(rotate(block, 4, 5, 8), 8, 10, 12), 12, 15, 16)

\* The three rotations that decryptBlock calls inverse ShiftRows: the same
\* rotations, in the opposite order.
InvShiftRows(block) ==
    rotate(rotate(rotate(block, 12, 15, 16), 8, 10, 12), 4, 5, 8)

\* The column loop of encryptBlock; decryptBlock runs the same loop as its
\* inverse MixColumns.
MixColumns(block) ==
    CHOOSE r \in
      {[i \in 1..BLOCK_SIZE |->
          LET c == 4 * ((i - 1) \div 4)
              s0 == b[c + 1]
              s1 == b[c + 2]
              s2 == b[c + 3]
              s3 == b[c + 4]
          IN  CASE (i - 1) % 4 = 0 ->
                     Xor(Xor(Xor(Xor(Shl1(s0), Shl1(s1)), s1), s2), s3)
                [] (i - 1) % 4 = 1 ->
                     Xor(Xor(Xor(Xor(s0, Shl1(s1)), Shl1(s2)), s2), s3)
                [] (i - 1) % 4 = 2 ->
                     Xor(Xor(Xor(Xor(s0, s1), Shl1(s2)), Shl1(s3)), s3)
                [] OTHER ->
                     Xor(Xor(Xor(Xor(Shl1(s0), s0), s1), s2), Shl1(s3))] :
         b \in {block}} : TRUE

\* Crypto::generateRoundKey: the four steps, each on the result of the one
\* before (the last loop runs upwards, so roundKey[i + 4] takes the already
\* updated roundKey[i]).
RECURSIVE chainWords(_, _)
chainWords(roundKey, i) ==
    IF i = 12 THEN roundKey
    ELSE CHOOSE r \in
           {chainWords([k EXCEPT ![i + 5] = Xor(k[i + 1], k[i + 5])], i + 1) :
              k \in {roundKey}} : TRUE

generateRoundKey(key, round) ==
    CHOOSE r \in
      {chainWords([[i \in 1..BLOCK_SIZE |->
                       IF i > 12 THEN SBOX[rotated[i] + 1] ELSE rotated[i]]
                     EXCEPT ![1] = Xor(@, RCON[round + 1])], 0) :
         rotated \in {rotate(key, 12, 13, 16)}} : TRUE

\* One round of the loop of Crypto::encryptBlock.
encryptRound(block, key, round) ==
    LET shifted == ShiftRows(SubBytes(block))
        mixed == IF round < 9 THEN MixColumns(shifted) ELSE shifted
    IN  xorBlocks(mixed, generateRoundKey(key, round))

\* Crypto::encryptBlock: the rounds from `round` on.
RECURSIVE encryptRounds(_, _, _)
encryptRounds(block, key, round) ==
    IF round = 10 THEN block
    ELSE CHOOSE r \in {encryptRounds(b, key, round + 1) :
                         b \in {encryptRound(block, key, round)}} : TRUE

encryptBlock(block, key) == encryptRounds(xorBlocks(block, key), key, 0)

\* One round of the loop of Crypto::decryptBlock.
decryptRound(block, key, round) ==
    LET keyed == xorBlocks(InvSubBytes(InvShiftRows(block)),
                           generateRoundKey(key, round))
    IN  IF round < 9 THEN MixColumns(keyed) ELSE keyed

\* Crypto::decryptBlock: the rounds from `round` on, in the same ascending
\* order as encryptBlock.
RECURSIVE decryptRounds(_, _, _)
decryptRounds(block, key, round) ==
    IF round = 10 THEN block
    ELSE CHOOSE r \in {decryptRounds(b, key, round + 1) :
                         b \in {decryptRound(block, key, round)}} : TRUE

decryptBlock(block, key) == decryptRounds(xorBlocks(block, key), key, 0)

\* Crypto::validateKey, Crypto::validateIV
validateKey(key) == Len(key) = 16 \/ Len(key) = 32

validateIV(iv) == Len(iv) = IV_SIZE

\* Crypto::padBlock
padBlock(data) ==
    LET paddingSize == BLOCK_SIZE - (Len(data) % BLOCK_SIZE)
    IN  data \o [i \in 1..paddingSize |-> paddingSize]

\* What a decryption gives: the plaintext, or an exception thrown.
Plain(data) == [ok |-> TRUE, data |-> data]

Thrown == [ok |-> FALSE, data |-> <<>>]

\* Crypto::unpadBlock
unpadBlock(data) ==
    IF data = <<>> THEN Plain(data)
    ELSE LET paddingSize == data[Len(data)]
         IN  IF paddingSize > BLOCK_SIZE \/ paddingSize = 0
             THEN Thrown
             \* resize to a size below zero: std::length_error
             ELSE IF paddingSize > Len(data) THEN Thrown
             ELSE Plain(SubSeq(data, 1, Len(data) - paddingSize))

\* The block of data that starts at byte i (0-based).
BlockAt(data, i) ==
    CHOOSE r \in {[k \in 1..BLOCK_SIZE |-> d[i + k]] : d \in {data}} : TRUE

\* Crypto::encryptECB
RECURSIVE ecbEncryptFrom(_, _, _)
ecbEncryptFrom(paddedData, keyArray, i) ==
    IF i >= Len(paddedData) THEN <<>>
    ELSE encryptBlock(BlockAt(paddedData, i), keyArray)
           \o ecbEncryptFrom(paddedData, keyArray, i + BLOCK_SIZE)

encryptECB(data, key) ==
    ecbEncryptFrom(padBlock(data), SubSeq(key, 1, BLOCK_SIZE), 0)

\* Crypto::decryptECB
RECURSIVE ecbDecryptFrom(_, _, _)
ecbDecryptFrom(data, keyArray, i) ==
    IF i >= Len(data) THEN <<>>
    ELSE decryptBlock(BlockAt(data, i), keyArray)
           \o ecbDecryptFrom(data, keyArray, i + BLOCK_SIZE)

decryptECB(data, key) ==
    IF Len(data) % BLOCK_SIZE # 0 THEN Thrown
    ELSE unpadBlock(ecbDecryptFrom(data, SubSeq(key, 1, BLOCK_SIZE), 0))

\* Crypto::encryptCBC.  previousBlock is an uninitialised array of 16 bytes
\* of which std::copy fills the first 12 with the IV: its last four bytes
\* are indeterminate, here `tail`.
RECURSIVE cbcEncryptFrom(_, _, _, _)
cbcEncryptFrom(paddedData, keyArray, previousBlock, i) ==
    IF i >= Len(paddedData) THEN <<>>
    ELSE CHOOSE r \in
           {block \o cbcEncryptFrom(paddedData, keyArray, block, i + BLOCK_SIZE) :
              block \in {encryptBlock(xorBlocks(BlockAt(paddedData, i), previousBlock),
                                      keyArray)}} : TRUE

encryptCBC(data, key, iv, tail) ==
    cbcEncryptFrom(padBlock(data), SubSeq(key, 1, BLOCK_SIZE), iv \o tail, 0)

\* Crypto::decryptCBC, with the same indeterminate four bytes.
RECURSIVE cbcDecryptFrom(_, _, _, _)
cbcDecryptFrom(data, keyArray, previousBlock, i) ==
    IF i >= Len(data) THEN <<>>
    ELSE LET currentBlock == BlockAt(data, i)
         IN  xorBlocks(decryptBlock(currentBlock, keyArray), previousBlock)
               \o cbcDecryptFrom(data, keyArray, currentBlock, i + BLOCK_SIZE)

decryptCBC(data, key, iv, tail) ==
    IF Len(data) % BLOCK_SIZE # 0 THEN Thrown
    ELSE unpadBlock(cbcDecryptFrom(data, SubSeq(key, 1, BLOCK_SIZE), iv \o tail, 0))

\* Crypto::encryptGCM: the CBC ciphertext followed by the array `tag`, which
\* no statement writes: 16 indeterminate bytes.
encryptGCM(data, key, iv, tail, tag) == encryptCBC(data, key, iv, tail) \o tag

\* Crypto::decryptGCM: the last 16 bytes are copied to receivedTag and
\* compared with nothing; the rest is decrypted as CBC.
decryptGCM(data, key, iv, tail) ==
    IF Len(data) < GCM_TAG_SIZE THEN Thrown
    ELSE decryptCBC(SubSeq(data, 1, Len(data) - GCM_TAG_SIZE), key, iv, tail)

\* Crypto::encrypt (the key and the IV are valid)
encrypt(data, key, iv, mode, tail, tag) ==
    CASE mode = "ECB" -> encryptECB(data, key)
      [] mode = "CBC" -> encryptCBC(data, key, iv, tail)
      [] OTHER -> encryptGCM(data, key, iv, tail, tag)

\* Crypto::decrypt
decrypt(encryptedData, key, iv, mode, tail) ==
    IF ~validateKey(key) \/ ~validateIV(iv) THEN Thrown
    ELSE CASE mode = "ECB" -> decryptECB(encryptedData, key)
           [] mode = "CBC" -> decryptCBC(encryptedData, key, iv, tail)
           [] OTHER -> decryptGCM(encryptedData, key, iv, tail)

(***************************************************************************)
(* Compression.  The LZ4 and ZSTD libraries are not part of the            *)
(* repository: their functions are modelled on the formats they read and   *)
(* write, an LZ4 block holding one run of literals (fewer than 270) and a  *)
(* ZSTD frame abridged to its magic number, its content size and one raw   *)
(* block.                                                                  *)
(***************************************************************************)
MIN_COMPRESSION_SIZE == 64
\* COMPRESSION_RATIO_THRESHOLD = 0.8f, in tenths.
COMPRESSION_RATIO_TENTHS == 8

\* LZ4_compress_default: the token, the rest of the length, the literals.
LZ4_compress_default(data) ==
    IF Len(data) < 15 THEN <<16 * Len(data)>> \o data
    ELSE <<240, Len(data) - 15>> \o data

\* LZ4_decompress_safe(src, dst, srcSize, dstCapacity): the number of bytes
\* written and the bytes, or a negative number for a malformed block or one
\* that does not fit.
LZ4_decompress_safe(src, dstCapacity) ==
    LET malformed == [size |-> -1, data |-> <<>>]
        short == src # <<>> /\ src[1] \div 16 < 15
        long == Len(src) >= 2 /\ src[1] \div 16 = 15 /\ src[2] < 255
        header == IF short THEN 1 ELSE 2
        literals == IF short THEN src[1] \div 16 ELSE 15 + src[2]
    IN  IF ~(short \/ long) THEN malformed
        ELSE IF Len(src) # header + literals \/ literals > dstCapacity
        THEN malformed
        ELSE [size |-> literals, data |-> SubSeq(src, header + 1, Len(src))]

\* ZSTD_MAGICNUMBER 0xFD2FB528, as the bytes of a frame.
ZSTD_MAGIC == <<40, 181, 47, 253>>

\* ZSTD_compress at level 3
ZSTD_compress(data) == ZSTD_MAGIC \o <<Len(data)>> \o data

\* ZSTD_getFrameContentSize; -1 stands for ZSTD_CONTENTSIZE_ERROR.
ZSTD_getFrameContentSize(src) ==
    IF Len(src) >= 5 /\ SubSeq(src, 1, 4) = ZSTD_MAGIC THEN src[5] ELSE -1

\* ZSTD_decompress(dst, dstCapacity, src, srcSize); size -1 stands for an error.
ZSTD_decompress(src, dstCapacity) ==
    IF Len(src) - 5 = dstCapacity
    THEN [size |-> dstCapacity, data |-> SubSeq(src, 6, Len(src))]
    ELSE [size |-> -1, data |-> <<>>]

\* What a call gives: the vector it returned, or no return at all, the
\* call stack being exhausted.
Returned(data) == [returned |-> TRUE, data |-> data]

StackOverflow == [returned |-> FALSE, data |-> <<>>]

\* Compression::compress and Compression::shouldCompress, which call each
\* other: `depth` counts the frames on the call stack, which holds
\* MaxCallDepth of them.
RECURSIVE compress(_, _, _)
RECURSIVE shouldCompress(_, _, _)
shouldCompress(data, algorithm, depth) ==
    IF depth > MaxCallDepth THEN [returned |-> FALSE, value |-> FALSE]
    ELSE IF Len(data) < MIN_COMPRESSION_SIZE
    THEN [returned |-> TRUE, value |-> FALSE]
    ELSE LET compressed == compress(data, algorithm, depth + 1)
         IN  IF ~compressed.returned
             THEN [returned |-> FALSE, value |-> FALSE]
             ELSE [returned |-> TRUE,
                   value |-> Len(compressed.data) * 10
                               < Len(data) * COMPRESSION_RATIO_TENTHS]

compress(data, algorithm, depth) ==
    IF depth > MaxCallDepth THEN StackOverflow
    ELSE IF data = <<>> THEN Returned(data)
    ELSE LET should == shouldCompress(data, algorithm, depth + 1)
         IN  IF ~should.returned THEN StackOverflow
             ELSE IF ~should.value THEN Returned(data)
             ELSE CASE algorithm = "LZ4" ->
                         IF Len(LZ4_compress_default(data)) > 0
                         THEN Returned(LZ4_compress_default(data))
                         ELSE Returned(data)
                    [] algorithm = "ZSTD" -> Returned(ZSTD_compress(data))
                    [] OTHER -> Returned(data)

\* n zero bytes: std::vector<uint8_t>(n)
Zeros(n) == [i \in 1..n |-> 0]

\* Compression::decompress
decompress(compressedData, algorithm) ==
    IF compressedData = <<>> THEN compressedData
    ELSE CASE algorithm = "LZ4" ->
                IF Len(compressedData) < 4 THEN compressedData
                ELSE LET originalSize == DecodeU32(compressedData)
                         out == LZ4_decompress_safe(
                                    SubSeq(compressedData, 5, Len(compressedData)),
                                    originalSize)
                     IN  IF out.size > 0
                         THEN out.data \o Zeros(originalSize - out.size)
                         ELSE compressedData
           [] algorithm = "ZSTD" ->
                LET originalSize == ZSTD_getFrameContentSize(compressedData)
                IN  IF originalSize = -1 THEN compressedData
                    ELSE IF ZSTD_decompress(compressedData, originalSize).size # -1
                    THEN ZSTD_decompress(compressedData, originalSize).data
                    ELSE compressedData
           [] OTHER -> compressedData

(***************************************************************************)
(* NetworkManager: the bytes of a datagram, under a configuration with     *)
(* compression or encryption.                                              *)
(***************************************************************************)
\* NetworkManager::processOutgoingData under the configuration config, for
\* the IV that generateIV drew and the indeterminate bytes of the
\* encryption.
processOutgoingDataWith(data, config, iv, tail, tag) ==
    LET compressed == IF config.enableCompression
                      THEN compress(data, config.compressionAlgorithm, 0)
                      ELSE Returned(data)
    IN  IF ~compressed.returned THEN StackOverflow
        ELSE IF config.enableEncryption
        THEN Returned(iv \o encrypt(compressed.data, config.encryptionKey, iv,
                                    config.encryptionMode, tail, tag))
        ELSE compressed

\* The first half of NetworkManager::processIncomingData: the bytes the
\* message is built from, or the datagram dropped.
processedDataOf(data, config, tail) ==
    LET decrypted ==
            IF ~config.enableEncryption THEN Plain(data)
            ELSE IF Len(data) < IV_SIZE THEN Thrown
            ELSE decrypt(SubSeq(data, IV_SIZE + 1, Len(data)),
                         config.encryptionKey, SubSeq(data, 1, IV_SIZE),
                         config.encryptionMode, tail)
    IN  IF ~decrypted.ok THEN Thrown
        ELSE IF config.enableCompression
        THEN Plain(decompress(decrypted.data, config.compressionAlgorithm))
        ELSE decrypted

NoCall == [kind |-> "none", data |-> <<>>]

\* A call of Compression::compress(data, algorithm) on its own.
CompressCall ==
    /\ codecPc = "idle"
    /\ LET ret == compress(codecPayload, codecConfig.compressionAlgorithm, 0)
       IN  compressRet' = IF ret.returned
                          THEN [kind |-> "returned", data |-> ret.data]
                          ELSE [kind |-> "overflow", data |-> <<>>]
    /\ codecPc' = "compressed"
    /\ UNCHANGED <<codecConfig, codecPayload, codecPacket, codecAltered,
                   codecResult>>
    /\ UNCHANGED <<now, loopVars, connVars, nmVars, schedVars, fragVars, cmVars, vsSocketVars, cmStepVars, mhVars, lockVars, stopVars,
                   vsVars>>

\* The tail of NetworkManager::send for a message that needs no
\* fragmentation: processOutgoingData, and the datagram handed to the socket
\* unless it is empty.
SendProcessed(iv, tail, tag) ==
    /\ codecPc = "idle"
    /\ LET processedData == processOutgoingDataWith(codecPayload, codecConfig,
                                                    iv, tail, tag)
       IN  IF ~processedData.returned
           THEN /\ codecPc' = "overflow"
                /\ UNCHANGED codecPacket
           ELSE IF processedData.data = <<>>
           THEN /\ codecPc' = "refused"
                /\ UNCHANGED codecPacket
           ELSE /\ codecPc' = "sent"
                /\ codecPacket' = processedData.data
    /\ UNCHANGED <<codecConfig, codecPayload, codecAltered, codecResult,
                   compressRet>>
    /\ UNCHANGED <<now, loopVars, connVars, nmVars, schedVars, fragVars, cmVars, vsSocketVars, cmStepVars, mhVars, lockVars, stopVars,
                   vsVars>>

\* The network changes one byte of the datagram on its way: byte k, or
\* the last byte for k = 0.
AlterPacket(k) ==
    /\ codecPc = "sent"
    /\ ~codecAltered
    /\ k \in 0..Len(codecPacket)
    /\ codecPacket' = [codecPacket EXCEPT
                          ![IF k = 0 THEN Len(codecPacket) ELSE k] = (@ + 1) % 256]
    /\ codecAltered' = TRUE
    /\ UNCHANGED <<codecConfig, codecPayload, codecPc, codecResult, compressRet>>
    /\ UNCHANGED <<now, loopVars, connVars, nmVars, schedVars, fragVars, cmVars, vsSocketVars, cmStepVars, mhVars, lockVars, stopVars,
                   vsVars>>

\* NetworkManager::processIncomingData(data, clientId) for the datagram,
\* read as a message that is no fragment (ProcessIncomingData has the
\* other readings): the bytes are decrypted and decompressed, the peer's
\* activity noted and the message queued, unless the datagram is dropped.
ProcessIncomingDatagram(clientId, tail) ==
    /\ codecPc = "sent"
    /\ LET processedData == processedDataOf(codecPacket, codecConfig, tail)
       IN  IF ~processedData.ok
           THEN /\ codecResult' = [kind |-> "dropped", data |-> <<>>]
                /\ UNCHANGED <<messageQueue_, enqueued, lastActivity_>>
           ELSE /\ codecResult' = [kind |-> "accepted",
                                   data |-> processedData.data]
                /\ lastActivity_' = MapPut(lastActivity_, clientId, now)
                /\ messageQueue_' =
                      Append(messageQueue_, [data |-> processedData.data])
                /\ enqueued' = Append(enqueued,
                                      [idx |-> 0, data |-> processedData.data])
    /\ codecPc' = "received"
    /\ UNCHANGED <<codecConfig, codecPayload, codecPacket, codecAltered,
                   compressRet>>
    /\ UNCHANGED <<nextMessageId_, fragmentMap_, nmFault, sends, wire, fed,
                   completions, recvOk, recvMsg, received>>
    /\ UNCHANGED <<now, loopVars, connVars, schedVars, fragVars, cmVars, vsSocketVars, cmStepVars, mhVars, lockVars, stopVars, vsVars>>

(***************************************************************************)
(* VirtualSocket.  sendTo holds no lock but for the push on the send       *)
(* queue (and the swap of simulateReordering): a call is a row of steps,   *)
(* one thread at each position vsPc[t].  Probabilities and the draws of    *)
(* dist_(rng_) are in hundredths; latency, jitter and delays are in ticks. *)
(***************************************************************************)
VirtualPriority ==
    {"IMMEDIATE_PRIORITY", "HIGH_PRIORITY", "MEDIUM_PRIORITY", "LOW_PRIORITY",
     "LOWEST_PRIORITY"}

\* A value-initialised NetworkCondition and Statistics.
NoCondition ==
    [packetLoss |-> 0, latency |-> 0, jitter |-> 0, bandwidth |-> 0,
     corruption |-> 0, reorder |-> 0, mtu |-> 0]

NoStatistics ==
    [packetsSent |-> 0, packetsReceived |-> 0, packetsLost |-> 0,
     packetsCorrupted |-> 0, packetsReordered |-> 0, bytesSent |-> 0,
     bytesReceived |-> 0, averageLatency |-> 0, currentBandwidth |-> 0]

NoVsPacket ==
    [data |-> <<>>, timestamp |-> 0, isCorrupted |-> FALSE,
     sequenceNumber |-> 0, priority |-> "MEDIUM_PRIORITY"]

\* The steps of a sendTo whose lost packet would go on to the later steps.
nextStepKeepLost(step, lost) ==
    CASE step = "loss" -> "corruption"
      [] step = "corruption" -> "latency"
      [] step = "latency" -> "reordering"
      [] step = "reordering" -> "bandwidth"
      [] OTHER -> "push"

\* The steps of the simulation in sendTo, in the order of the code; a
\* packet that is lost leaves by the return after updateStatistics.
nextStep(step, lost) ==
    CASE step = "loss" -> IF lost THEN "idle" ELSE "corruption"
      [] step = "corruption" -> "latency"
      [] step = "latency" -> "reordering"
      [] step = "reordering" -> "bandwidth"
      [] OTHER -> "push"

\* updateStatistics with a lost packet counted as sent only.
vsUpdateStatisticsLossUncounted(stats, packet, wasLost, wasCorrupted, wasReordered) ==
    [stats EXCEPT !.packetsSent = @ + 1,
                  !.packetsReceived = @ + (IF wasLost THEN 0 ELSE 1),
                  !.packetsCorrupted = @ + (IF wasCorrupted THEN 1 ELSE 0),
                  !.bytesSent = @ + Len(packet.data),
                  !.bytesReceived = @ + (IF wasLost THEN 0 ELSE Len(packet.data))]

\* VirtualSocket::updateStatistics(packet, wasLost, wasCorrupted,
\* wasReordered): the counters.  (averageLatency, a float, is kept in whole
\* ticks.)
vsUpdateStatistics(stats, packet, wasLost, wasCorrupted, wasReordered) ==
    LET nowReceived == stats.packetsReceived + (IF wasLost THEN 0 ELSE 1)
        latency == now - packet.timestamp
    IN  [stats EXCEPT
           !.packetsSent = @ + 1,
           !.packetsReceived = nowReceived,
           !.packetsLost = @ + (IF wasLost THEN 1 ELSE 0),
           !.packetsCorrupted = @ + (IF wasCorrupted THEN 1 ELSE 0),
           !.packetsReordered = @ + (IF wasReordered THEN 1 ELSE 0),
           !.bytesSent = @ + Len(packet.data),
           !.bytesReceived = @ + (IF wasLost THEN 0 ELSE Len(packet.data)),
           !.averageLatency =
               IF wasLost THEN @
               ELSE (@ * (nowReceived - 1) + latency) \div nowReceived,
           !.currentBandwidth =
               IF WholeSeconds(lastBandwidthUpdate_) >= 1
               THEN bytesInCurrentWindow_ ELSE @]

\* The end of updateStatistics: the bandwidth window starts anew after a
\* second.
StatisticsWindow ==
    IF WholeSeconds(lastBandwidthUpdate_) >= 1
    THEN /\ bytesInCurrentWindow_' = 0
         /\ lastBandwidthUpdate_' = now
    ELSE UNCHANGED <<bytesInCurrentWindow_, lastBandwidthUpdate_>>

\* VirtualSocket::bind(port)
VsBind ==
    /\ isBound_' = TRUE
    /\ vsRet' = [op |-> "bind", value |-> IF isBound_ THEN 0 ELSE 1]
    /\ UNCHANGED <<simulationEnabled_, networkCondition_, sendQueues_,
                   statistics_, sequenceCounter, lastBandwidthUpdate_,
                   bytesInCurrentWindow_, vsPc, vsPacket, vsSteps, vsDropped>>
    /\ UNCHANGED <<now, loopVars, connVars, nmVars, schedVars, fragVars, cmVars, isConnected_, isListening_, receiveQueue_, cmStepVars, mhVars, lockVars, stopVars,
                   codecVars>>

\* VirtualSocket::setNetworkCondition(condition)
SetNetworkCondition(condition) ==
    /\ networkCondition_ # condition
    /\ networkCondition_' = condition
    /\ UNCHANGED <<isBound_, simulationEnabled_, sendQueues_, statistics_,
                   sequenceCounter, lastBandwidthUpdate_, bytesInCurrentWindow_,
                   vsPc, vsPacket, vsSteps, vsDropped>>
    /\ UNCHANGED <<now, loopVars, connVars, nmVars, schedVars, fragVars, cmVars, vsSocketVars, cmStepVars, mhVars, lockVars, stopVars,
                   codecVars>>

\* VirtualSocket::enableSimulation(enable)
EnableSimulation(enable) ==
    /\ simulationEnabled_ # enable
    /\ simulationEnabled_' = enable
    /\ UNCHANGED <<isBound_, networkCondition_, sendQueues_, statistics_,
                   sequenceCounter, lastBandwidthUpdate_, bytesInCurrentWindow_,
                   vsPc, vsPacket, vsSteps, vsDropped>>
    /\ UNCHANGED <<now, loopVars, connVars, nmVars, schedVars, fragVars, cmVars, vsSocketVars, cmStepVars, mhVars, lockVars, stopVars,
                   codecVars>>

\* sendTo(data, address, port, qos) by thread t, up to the test of
\* simulationEnabled_: -1 for a socket that is not bound or data above the
\* MTU; else the packet is made, with the next number of the static
\* counter of generateSequenceNumber.
SendTo(t, data, priority) ==
    /\ vsPc[t] = "idle"
    /\ IF ~isBound_ \/ Len(data) > networkCondition_.mtu
       THEN /\ vsRet' = [op |-> "sendTo", value |-> -1]
            /\ UNCHANGED <<sequenceCounter, vsPc, vsPacket, vsSteps>>
       ELSE /\ UNCHANGED vsRet
            /\ vsPacket' = [vsPacket EXCEPT ![t] =
                              [data |-> data, timestamp |-> now,
                               isCorrupted |-> FALSE,
                               sequenceNumber |-> sequenceCounter,
                               priority |-> priority]]
            /\ sequenceCounter' = (sequenceCounter + 1) % SeqModulus
            /\ vsSteps' = MapPut(vsSteps, sequenceCounter, <<>>)
            /\ vsPc' = [vsPc EXCEPT ![t] =
                          IF simulationEnabled_ THEN "loss" ELSE "push"]
    /\ UNCHANGED <<isBound_, simulationEnabled_, networkCondition_, sendQueues_,
                   statistics_, lastBandwidthUpdate_, bytesInCurrentWindow_,
                   vsDropped>>
    /\ UNCHANGED <<now, loopVars, connVars, nmVars, schedVars, fragVars, cmVars, isConnected_, isListening_, receiveQueue_, cmStepVars, mhVars, lockVars, stopVars,
                   codecVars>>

\* sendTo: simulatePacketLoss, for the draw roll; a lost packet is counted
\* by updateStatistics and sendTo returns.
SimulatePacketLoss(t, roll) ==
    LET lost == roll < networkCondition_.packetLoss
        packet == vsPacket[t]
    IN  /\ vsPc[t] = "loss"
        /\ vsSteps' = [vsSteps EXCEPT ![packet.sequenceNumber] = Append(@, "loss")]
        /\ vsPc' = [vsPc EXCEPT ![t] = nextStep("loss", lost)]
        /\ IF lost
           THEN /\ statistics_' =
                      vsUpdateStatistics(statistics_, packet, TRUE, FALSE, FALSE)
                /\ StatisticsWindow
                /\ vsDropped' = vsDropped \cup {packet.sequenceNumber}
           ELSE UNCHANGED <<statistics_, lastBandwidthUpdate_,
                            bytesInCurrentWindow_, vsDropped>>
        /\ UNCHANGED <<isBound_, simulationEnabled_, networkCondition_,
                       sendQueues_, sequenceCounter, vsPacket>>
        /\ UNCHANGED <<now, loopVars, connVars, nmVars, schedVars, fragVars,
                       cmVars, vsSocketVars, cmStepVars, mhVars, lockVars, stopVars, codecVars>>

\* sendTo: simulateCorruption(packet.data), for the three draws.
SimulateCorruption(t, roll, rollIndex, rollByte) ==
    LET packet == vsPacket[t]
        corrupted == ~(roll >= networkCondition_.corruption) /\ packet.data # <<>>
        index == (rollIndex * Len(packet.data)) \div 100
    IN  /\ vsPc[t] = "corruption"
        /\ vsSteps' = [vsSteps EXCEPT
                         ![packet.sequenceNumber] = Append(@, "corruption")]
        /\ vsPc' = [vsPc EXCEPT ![t] = nextStep("corruption", FALSE)]
        /\ vsPacket' =
              IF corrupted
              THEN [vsPacket EXCEPT
                      ![t].data[index + 1] = (rollByte * 256) \div 100,
                      ![t].isCorrupted = TRUE]
              ELSE vsPacket
        /\ UNCHANGED <<isBound_, simulationEnabled_, networkCondition_,
                       sendQueues_, statistics_, sequenceCounter,
                       lastBandwidthUpdate_, bytesInCurrentWindow_, vsDropped>>
        /\ UNCHANGED <<now, loopVars, connVars, nmVars, schedVars, fragVars,
                       cmVars, vsSocketVars, cmStepVars, mhVars, lockVars, stopVars, codecVars>>

\* sendTo: simulateLatency(packet), for the draw of the jitter.
SimulateLatency(t, roll) ==
    LET packet == vsPacket[t]
        totalLatency ==
            networkCondition_.latency
              + (IF networkCondition_.jitter > 0
                 THEN ((2 * roll - 100) * networkCondition_.jitter) \div 100
                 ELSE 0)
    IN  /\ vsPc[t] = "latency"
        /\ vsSteps' = [vsSteps EXCEPT
                         ![packet.sequenceNumber] = Append(@, "latency")]
        /\ vsPc' = [vsPc EXCEPT ![t] = nextStep("latency", FALSE)]
        /\ vsPacket' =
              IF networkCondition_.latency > 0 \/ networkCondition_.jitter > 0
              THEN [vsPacket EXCEPT ![t].timestamp = @ + totalLatency]
              ELSE vsPacket
        /\ UNCHANGED <<isBound_, simulationEnabled_, networkCondition_,
                       sendQueues_, statistics_, sequenceCounter,
                       lastBandwidthUpdate_, bytesInCurrentWindow_, vsDropped>>
        /\ UNCHANGED <<now, loopVars, connVars, nmVars, schedVars, fragVars,
                       cmVars, vsSocketVars, cmStepVars, mhVars, lockVars, stopVars, codecVars>>

\* sendTo: simulateReordering, for the draw: the two packets at the front
\* of the MEDIUM_PRIORITY queue go to its back, the second before the first.
SimulateReordering(t, roll) ==
    LET packet == vsPacket[t]
        queue == sendQueues_["MEDIUM_PRIORITY"]
    IN  /\ vsPc[t] = "reordering"
        /\ vsSteps' = [vsSteps EXCEPT
                         ![packet.sequenceNumber] = Append(@, "reordering")]
        /\ vsPc' = [vsPc EXCEPT ![t] = nextStep("reordering", FALSE)]
        /\ sendQueues_' =
              IF /\ networkCondition_.reorder > 0
                 /\ roll < networkCondition_.reorder
                 /\ Len(queue) >= 2
              THEN [sendQueues_ EXCEPT !["MEDIUM_PRIORITY"] =
                      SubSeq(queue, 3, Len(queue)) \o <<queue[2], queue[1]>>]
              ELSE sendQueues_
        /\ UNCHANGED <<isBound_, simulationEnabled_, networkCondition_,
                       statistics_, sequenceCounter, lastBandwidthUpdate_,
                       bytesInCurrentWindow_, vsPacket, vsDropped>>
        /\ UNCHANGED <<now, loopVars, connVars, nmVars, schedVars, fragVars,
                       cmVars, vsSocketVars, cmStepVars, mhVars, lockVars, stopVars, codecVars>>

\* sendTo: updateBandwidth(packet)
UpdateBandwidth(t) ==
    LET packet == vsPacket[t]
        window == (IF WholeSeconds(lastBandwidthUpdate_) >= 1
                   THEN 0 ELSE bytesInCurrentWindow_) + Len(packet.data)
        delay == ((window - networkCondition_.bandwidth) * TicksPerSecond)
                    \div networkCondition_.bandwidth
    IN  /\ vsPc[t] = "bandwidth"
        /\ vsSteps' = [vsSteps EXCEPT
                         ![packet.sequenceNumber] = Append(@, "bandwidth")]
        /\ vsPc' = [vsPc EXCEPT ![t] = nextStep("bandwidth", FALSE)]
        /\ IF networkCondition_.bandwidth > 0
           THEN /\ bytesInCurrentWindow_' = window
                /\ lastBandwidthUpdate_' =
                      IF WholeSeconds(lastBandwidthUpdate_) >= 1
                      THEN now ELSE lastBandwidthUpdate_
                /\ vsPacket' =
                      IF window > networkCondition_.bandwidth
                      THEN [vsPacket EXCEPT ![t].timestamp = @ + delay]
                      ELSE vsPacket
           ELSE UNCHANGED <<bytesInCurrentWindow_, lastBandwidthUpdate_, vsPacket>>
        /\ UNCHANGED <<isBound_, simulationEnabled_, networkCondition_,
                       sendQueues_, statistics_, sequenceCounter, vsDropped>>
        /\ UNCHANGED <<now, loopVars, connVars, nmVars, schedVars, fragVars,
                       cmVars, vsSocketVars, cmStepVars, mhVars, lockVars, stopVars, codecVars>>

\* sendTo: sendQueues_[qos.priority].push(packet), under sendMutex_.
PushPacket(t) ==
    /\ vsPc[t] = "push"
    /\ sendQueues_' = [sendQueues_ EXCEPT
                         ![vsPacket[t].priority] = Append(@, vsPacket[t])]
    /\ vsPc' = [vsPc EXCEPT ![t] = "statistics"]
    /\ UNCHANGED <<isBound_, simulationEnabled_, networkCondition_, statistics_,
                   sequenceCounter, lastBandwidthUpdate_, bytesInCurrentWindow_,
                   vsPacket, vsSteps, vsDropped>>
    /\ UNCHANGED <<now, loopVars, connVars, nmVars, schedVars, fragVars, cmVars, vsSocketVars, cmStepVars, mhVars, lockVars, stopVars,
                   codecVars>>

\* sendTo: updateStatistics(packet, false, packet.isCorrupted, false) and
\* the return.
CountPacket(t) ==
    /\ vsPc[t] = "statistics"
    /\ statistics_' = vsUpdateStatistics(statistics_, vsPacket[t], FALSE,
                                         vsPacket[t].isCorrupted, FALSE)
    /\ StatisticsWindow
    /\ vsPc' = [vsPc EXCEPT ![t] = "idle"]
    /\ UNCHANGED <<isBound_, simulationEnabled_, networkCondition_, sendQueues_,
                   sequenceCounter, vsPacket, vsSteps, vsDropped>>
    /\ UNCHANGED <<now, loopVars, connVars, nmVars, schedVars, fragVars, cmVars, vsSocketVars, cmStepVars, mhVars, lockVars, stopVars,
                   codecVars>>

(***************************************************************************)
(* The inputs of the Connection.                                           *)
(***************************************************************************)
Payloads == {<<7>>, <<7, 8>>}

InboundPackets ==
    {<<1, 2>>} \cup {EncodeU32(s) : s \in 0..MaxSeqIn}
               \cup {EncodeU32(s) \o <<7>> : s \in 0..MaxSeqIn}

\* The MessageHandler configuration the other components run beside.
NoHandlerConfig ==
    /\ mhMaxQueueSize = 0
    /\ mhEnableValidation = FALSE

InitBase ==
    /\ now = 0
    /\ running_ = FALSE
    /\ connections_ = {}
    /\ loopPc = "idle"
    /\ bytesSent_ = 0
    /\ nextSequenceNumber_ = 0
    /\ unacknowledgedPackets_ = EmptyMap
    /\ outgoingPackets_ = <<>>
    /\ lastStatsUpdate_ = 0
    /\ packetLoss_ = 0
    /\ packetsSent_ = 0
    /\ packetsReceived_ = 0
    /\ packetsLost_ = 0
    /\ queued = EmptyMap
    /\ sendCount = EmptyMap
    /\ acked = {}
    /\ nextMessageId_ = 0
    /\ messageQueue_ = <<>>
    /\ fragmentMap_ = EmptyMap
    /\ lastActivity_ = EmptyMap
    /\ nmFault = FALSE
    /\ sends = <<>>
    /\ wire = <<>>
    /\ fed = EmptyMap
    /\ enqueued = <<>>
    /\ completions = {}
    /\ recvOk = FALSE
    /\ recvMsg = [data |-> <<>>]
    /\ received = <<>>
    /\ packetQueue_ = {}
    /\ currentBandwidth_ = 0
    /\ maxBandwidth_ = 0
    /\ schedStuck = FALSE
    /\ deq = [kind |-> "none", packet |-> NoPacket]
    /\ enqRet = "none"
    /\ enqueueCount = 0
    /\ released = EmptyMap
    /\ fragDone = FALSE
    /\ fragOut = <<>>
    /\ cmRunning_ = FALSE
    /\ monitoring_ = FALSE
    /\ config_ = NoConfig
    /\ connectionStates_ = EmptyMap
    /\ connectionStats_ = EmptyMap
    /\ eventQueue_ = <<>>
    /\ cmRet = [op |-> "none", value |-> FALSE]
    /\ cmInitialized = FALSE
    /\ connectedAt = EmptyMap
    /\ connectionsMutex_ = "free"
    /\ stopPc = "idle"
    /\ stopTodo = <<>>
    /\ mutexOwner = [x \in Mutexes |-> 0]
    /\ receiveQueue_ = <<>>
    /\ vsRet = [op |-> "none", value |-> 0]
    /\ cmPc = [t \in Threads |-> "idle"]
    /\ cmArg = [t \in Threads |-> <<>>]
    /\ mhRunning_ = FALSE
    /\ mhMessageQueue_ = <<>>
    /\ mhQueueMutex_ = 0
    /\ mhEvents = <<>>
    /\ mhPc = [t \in Threads |-> "idle"]
    /\ mhArg = [t \in Threads |-> NoMhMessage]
    /\ mhSize = [t \in Threads |-> 0]
    /\ mhRet = [op |-> "none", value |-> FALSE]
    /\ mhNextId = 0
    /\ threadOp = [t \in Threads |-> "none"]
    /\ threadPos = [t \in Threads |-> 1]
    /\ codecPc = "idle"
    /\ codecPacket = <<>>
    /\ codecAltered = FALSE
    /\ codecResult = NoCall
    /\ compressRet = NoCall
    /\ sendQueues_ = [p \in VirtualPriority |-> <<>>]
    /\ sequenceCounter = 0
    /\ lastBandwidthUpdate_ = 0
    /\ vsPc = [t \in Threads |-> "idle"]
    /\ vsPacket = [t \in Threads |-> NoVsPacket]
    /\ vsSteps = EmptyMap
    /\ vsDropped = {}

NoMessage ==
    [data |-> <<>>, reliability |-> "UNRELIABLE", messageId |-> 0,
     fragmentIndex |-> 0, totalFragments |-> 0, isFragment |-> FALSE]

\* The configuration of the NetworkManager: no compression, no encryption.
ConfigOff ==
    [enableCompression |-> enableCompression, compressionAlgorithm |-> "NONE",
     enableEncryption |-> enableEncryption, encryptionMode |-> "GCM",
     encryptionKey |-> <<>>]

\* The members of VirtualSocket in the runs that make no VirtualSocket.
NoSocket ==
    /\ isBound_ = FALSE
    /\ isConnected_ = FALSE
    /\ isListening_ = FALSE
    /\ simulationEnabled_ = FALSE
    /\ networkCondition_ = NoCondition
    /\ statistics_ = NoStatistics
    /\ bytesInCurrentWindow_ = 0

Init ==
    /\ InitBase
    /\ NoHandlerConfig
    /\ NoSocket
    /\ fragIn = NoMessage
    /\ fragSizeIn = 1
    /\ codecConfig = ConfigOff
    /\ codecPayload = <<>>

NextConn ==
    \/ Connect
    \/ \E d \in Payloads, r \in PacketReliability :
          QueueBudget /\ QueuePacket(d, r)
    \/ \E d \in InboundPackets :
          (Len(d) < SizeofU32 \/ QueueBudget) /\ ProcessIncomingPacket(d)
    \/ LoopUpdate
    \/ LoopGetPackets
    \/ LoopSleep
    \/ Tick

SpecConn == Init /\ [][NextConn]_vars

\* The Connection's queueing beside the network thread, at one instant of
\* the clock.
NextQueue ==
    \/ Connect
    \/ \E d \in Payloads, r \in PacketReliability :
          QueueBudget /\ QueuePacket(d, r)
    \/ \E d \in InboundPackets :
          (Len(d) < SizeofU32 \/ QueueBudget) /\ ProcessIncomingPacket(d)
    \/ LoopUpdate
    \/ LoopGetPackets
    \/ LoopSleep

SpecQueue == Init /\ [][NextQueue]_vars

\* The same, for as many queuePacket calls as take the counter through its
\* wrap; the peer acknowledges packet 0.
WrapModes == {"UNRELIABLE", "RELIABLE"}

NextWrap ==
    \/ Connect
    \/ \E d \in Payloads, r \in WrapModes : WrapBudget /\ QueuePacket(d, r)
    \/ WrapBudget /\ ProcessIncomingPacket(EncodeU32(0))
    \/ LoopUpdate
    \/ LoopGetPackets
    \/ LoopSleep

SpecWrap == Init /\ [][NextWrap]_vars

(***************************************************************************)
(* The inputs of the NetworkManager.                                       *)
(***************************************************************************)
Bytes(n) == [i \in 1..n |-> i]

\* An empty payload, one that fits a packet, one that needs two fragments.
NMPayloads == {<<>>, Bytes(1), Bytes(fragmentSize + 1)}

NMMessages ==
    [data : NMPayloads, reliability : {"RELIABLE_ORDERED"},
     messageId : {0}, fragmentIndex : {0}, totalFragments : {0},
     isFragment : {FALSE}]

GarbageIds == 0..MaxGarbageId
GarbageIndices == 0..MaxGarbageIndex
GarbageTotals == 1..(MaxGarbageIndex + 1)

\* The send calls of a run.
SendBudget == Len(sends) < MaxSends

NextNM ==
    \/ StartServer
    \/ \E m \in NMMessages : SendBudget /\ Send(m)
    \/ \E i \in 0..Len(wire) :
          ProcessIncomingData(i, 0, FALSE, 0, 0, 1, FALSE, 0)
    \/ \E i \in 1..Len(wire), mid \in GarbageIds, idx \in GarbageIndices,
          tot \in GarbageTotals, fault \in BOOLEAN, rid \in GarbageIds :
          ProcessIncomingData(i, 0, TRUE, mid, idx, tot, fault, rid)
    \/ Receive
    \/ LoopUpdate
    \/ LoopGetPackets
    \/ LoopSleep
    \/ Tick

SpecNM == Init /\ [][NextNM]_vars

\* The receive path on its own: send, processIncomingData and receive
\* beside the running network thread, at one instant of the clock.  A
\* datagram read as a fragment is one of message 0, index 0, of a group of
\* one (complete at once) or of two.
NextRecv ==
    \/ StartServer
    \/ \E m \in NMMessages : SendBudget /\ Send(m)
    \/ \E i \in 0..Len(wire) :
          ProcessIncomingData(i, 0, FALSE, 0, 0, 1, FALSE, 0)
    \/ \E i \in 1..Len(wire), tot \in {1, 2}, fault \in BOOLEAN :
          ProcessIncomingData(i, 0, TRUE, 0, 0, tot, fault, 0)
    \/ Receive
    \/ LoopUpdate
    \/ LoopGetPackets
    \/ LoopSleep

SpecRecv == Init /\ [][NextRecv]_vars

FairSpecNM ==
    /\ SpecNM
    /\ WF_vars(LoopUpdate)
    /\ WF_vars(LoopGetPackets)
    /\ WF_vars(LoopSleep)
    /\ WF_vars(Tick)

\* The network thread keeps running (while (running_)) and time passes.
FairSpecConn ==
    /\ SpecConn
    /\ WF_vars(LoopUpdate)
    /\ WF_vars(LoopGetPackets)
    /\ WF_vars(LoopSleep)
    /\ WF_vars(Tick)

(***************************************************************************)
(* The PacketScheduler and its inputs.                                     *)
(***************************************************************************)
\* The priorities of the packets given to enqueuePacket: CRITICAL, MEDIUM
\* and BACKGROUND.
EnqueuedPriorities == {0, 2, 4}

NextSched ==
    \/ \E p \in EnqueuedPriorities, d \in {1, MaxDeadline} :
          EnqueuePacket(p, d, MaxPacketSize)
    \/ DequeuePacket
    \/ \E b \in {0, MaxBandwidth} : SetMaxBandwidth(b)
    \/ \E b \in {0, MaxBandwidth} : UpdateBandwidthUsage(b)
    \/ Tick

SpecSched == Init /\ [][NextSched]_vars

(***************************************************************************)
(* The ConnectionManager and its inputs.                                   *)
(***************************************************************************)
CmAddresses == {<<10, 0, 0, 1>>, <<10, 0, 0, 2>>, <<10, 0, 256, 1>>}

CmPorts == {0, 80}

ValidConfig ==
    [address |-> <<10, 0, 0, 1>>, port |-> 80, timeoutMs |-> CmTimeout,
     maxRetries |-> 1, keepAliveIntervalMs |-> 1, maxPacketSize |-> 1]

CmConfigs ==
    {ValidConfig,
     [ValidConfig EXCEPT !.address = <<10, 0, 1>>],
     [ValidConfig EXCEPT !.port = 0],
     [ValidConfig EXCEPT !.timeoutMs = 0]}

NextCM ==
    \/ \E c \in CmConfigs : CmInitialize(c)
    \/ CmStart
    \/ CmStop
    \/ StartMonitoring
    \/ \E a \in CmAddresses, p \in CmPorts : CmConnect(a, p)
    \/ \E a \in CmAddresses : CmDisconnect(a)
    \/ \E a \in CmAddresses : CmSend(a, <<1>>)
    \/ Tick

SpecCM == Init /\ [][NextCM]_vars

\* ConnectionManager starts no thread: only the clock is bound to advance.
FairSpecCM == SpecCM /\ WF_vars(Tick)

(***************************************************************************)
(* fragmentMessage on its own: every message of the bounded inputs.        *)
(***************************************************************************)
InitFragment ==
    /\ InitBase
    /\ NoHandlerConfig
    /\ NoSocket
    /\ fragIn \in [data : {Bytes(n) : n \in 0..MaxPayloadLen},
                   reliability : {"UNRELIABLE", "RELIABLE"},
                   messageId : 0..MaxMessageId,
                   fragmentIndex : {0}, totalFragments : {0},
                   isFragment : {FALSE}]
    /\ fragSizeIn \in 1..MaxFragmentSize
    /\ codecConfig = ConfigOff
    /\ codecPayload = <<>>

NextFragment == FragmentCall

SpecFragment == InitFragment /\ [][NextFragment]_vars

(***************************************************************************)
(* Claims on the Connection.                                               *)
(***************************************************************************)
ReliableQueued == {s \in DOMAIN queued : queued[s] \in ReliableModes}

\* Reliable packets that left the unacknowledged table without an ack.
DroppedUnacked ==
    {s \in ReliableQueued : s \notin DOMAIN unacknowledgedPackets_ /\ s \notin acked}

\* C1: a packet leaves the unacknowledged table only in a step that
\* processes an ack for its sequence number, or once it has used up its
\* MAX_RESEND_ATTEMPTS retransmissions.
C1_LeavesOnlyWhenAckedOrExhausted ==
    [][\A s \in DOMAIN unacknowledgedPackets_ :
          s \notin DOMAIN unacknowledgedPackets_' =>
              \/ s \in acked'
              \/ sendCount[s] > MAX_RESEND_ATTEMPTS]_vars

\* C2: under the running network loop, every packet queued with a reliable
\* mode is eventually returned by getPacketsToSend, unless its ack arrives
\* first.
C2_ReliableEventuallySent ==
    \A s \in 0..(MaxPackets - 1) :
        (s \in ReliableQueued)
            ~> (\/ s \in acked
                \/ (s \in DOMAIN sendCount /\ sendCount[s] > 0))

\* C3: a reliable packet is sent at most once plus MAX_RESEND_ATTEMPTS
\* retransmissions, and every reliable packet that left the table without
\* an ack is counted in packetsLost_.
C3_RetryBudgetAndLossCount ==
    /\ \A s \in ReliableQueued : sendCount[s] <= MAX_RESEND_ATTEMPTS + 1
    /\ packetsLost_ >= Cardinality(DroppedUnacked)


(***************************************************************************)
(* Claims on the NetworkManager.                                           *)
(***************************************************************************)
\* C4: an inbound packet presented to processIncomingData several times
\* puts at most one message in the receive queue: no two enqueued messages
\* come from the same wire packet.
C4_DuplicateDeliveredOnce ==
    \A j, k \in 1..Len(enqueued) :
        j # k => enqueued[j].idx # enqueued[k].idx

\* C5: ReliableOrdered messages become available to receive in the order
\* of their send calls, whatever the order of arrival.
C5_OrderedDelivery ==
    \A j, k \in 1..Len(enqueued) :
        (/\ j < k
         /\ wire[enqueued[j].idx].msg.reliability = "RELIABLE_ORDERED"
         /\ wire[enqueued[k].idx].msg.reliability = "RELIABLE_ORDERED")
            => wire[enqueued[j].idx].call <= wire[enqueued[k].idx].call

\* Every wire packet has been given to processIncomingData exactly once,
\* and nothing else has.
FedOnceEach ==
    /\ wire # <<>>
    /\ FedCount(0) = 0
    /\ \A i \in 1..Len(wire) : FedCount(i) = 1

\* C6: one payload larger than fragmentSize, every wire packet of it fed
\* once: exactly one message is delivered, and its data is the payload.
C6_FragmentRoundTrip ==
    (/\ Len(sends) = 1
     /\ Len(sends[1].data) > fragmentSize
     /\ FedOnceEach)
        => (/\ ~nmFault
            /\ Len(enqueued) = 1
            /\ enqueued[1].data = sends[1].data)

\* C8: a group is reported complete only when every fragment index in
\* [0, total) has been received, and the received count of a group is the
\* number of distinct indices it was given (a duplicate does not advance it).
C8_CompleteOnlyWhenAllReceived ==
    /\ \A c \in completions :
          \A x \in 0..(c.totalFragments - 1) : x \in c.seen
    /\ \A m \in DOMAIN fragmentMap_ :
          fragmentMap_[m].receivedFragments = Cardinality(fragmentMap_[m].seen)

\* C9: under the running network loop, an incomplete fragment group that
\* is fragmentTimeout old is eventually removed from fragmentMap_.
C9_ExpiredGroupReclaimed ==
    \A m \in GarbageIds :
        (/\ m \in DOMAIN fragmentMap_
         /\ now - fragmentMap_[m].timestamp >= fragmentTimeout)
            ~> (m \notin DOMAIN fragmentMap_)

\* C7: fragmentMessage(m) with fragment size f returns N = ceil(|m.data|/f)
\* fragments, of indices 0..N-1 in order, each with m's message id,
\* totalFragments = N, isFragment set and at most f bytes, whose data
\* concatenated in order is m.data.
C7_FragmentMessage ==
    fragDone =>
        LET N == Len(fragOut)
            size == Len(fragIn.data)
        IN  /\ N * fragSizeIn >= size
            /\ N = 0 \/ (N - 1) * fragSizeIn < size
            /\ \A i \in 1..N :
                  /\ fragOut[i].fragmentIndex = i - 1
                  /\ fragOut[i].messageId = fragIn.messageId
                  /\ fragOut[i].totalFragments = N
                  /\ fragOut[i].isFragment
                  /\ Len(fragOut[i].data) <= fragSizeIn
            /\ reassembleData(fragOut) = fragIn.data

\* C7 witness: a call that returned three or more fragments, the last
\* one shorter than the fragment size.
C7_Witness ==
    /\ fragDone
    /\ Len(fragOut) >= 3
    /\ Len(fragOut[Len(fragOut)].data) < fragSizeIn
    /\ fragIn.messageId > 0

(***************************************************************************)
(* Claims on the PacketScheduler.                                          *)
(***************************************************************************)
\* C10: dequeuePacket never returns a packet while a packet of strictly
\* higher priority whose deadline has not passed is in the queue.
C10_NoPriorityInversion ==
    [][(DequeuePacket /\ deq'.kind = "true") =>
          \A q \in packetQueue_' :
              ~(q.priority < deq'.packet.priority /\ q.deadline >= now)]_vars

\* C10 witness: a packet was returned ahead of a packet of lower priority
\* that had been enqueued before it and still waits, unexpired.
C10_Witness ==
    /\ deq.kind = "true"
    /\ \E q \in packetQueue_ :
          /\ q.priority > deq.packet.priority
          /\ q.id < deq.packet.id
          /\ q.deadline >= now

\* C11: of two queued packets of the same priority, dequeuePacket returns
\* the one enqueued first: it never returns a packet while a packet of the
\* same priority, enqueued before it and not expired, is still in the queue.
C11_SamePriorityFifo ==
    [][(DequeuePacket /\ deq'.kind = "true") =>
          \A q \in packetQueue_' :
              ~(/\ q.priority = deq'.packet.priority
                /\ q.id < deq'.packet.id
                /\ q.deadline >= now)]_vars

\* C12: a dequeuePacket call made while the top packet has passed its
\* deadline completes: it returns false, or a packet whose deadline has not
\* passed, and no expired packet that was ahead of the result stays queued.
C12_ExpiredDiscardedAndCompletes ==
    [][DequeuePacket =>
          /\ deq'.kind \in {"true", "false"}
          /\ ~schedStuck'
          /\ deq'.kind = "true" => deq'.packet.deadline >= now
          /\ deq'.kind = "false" => packetQueue_' = {}]_vars

RECURSIVE SumReleased(_)
SumReleased(ticks) ==
    IF ticks = {} THEN 0
    ELSE LET t == CHOOSE x \in ticks : TRUE
         IN  ReleasedAt(t) + SumReleased(ticks \ {t})

\* The bytes dequeuePacket returned, under a maximum bandwidth, in the
\* one-second window that ends now.
ReleasedInWindow ==
    SumReleased({t \in DOMAIN released : now - t < TicksPerSecond})

\* C13: while a maximum bandwidth B > 0 is set, the bytes dequeuePacket
\* returns within one second are at most B plus one MTU.
C13_BandwidthLimit ==
    maxBandwidth_ > 0 => ReleasedInWindow <= maxBandwidth_ + MaxPacketSize

\* C14: the queue never holds more than maxQueueSize packets; an
\* enqueuePacket call is accepted (it returns true and adds one packet) only
\* below maxQueueSize packets, and is refused (it returns false) only on a
\* full queue, which it leaves as it was.
C14_QueueBounded ==
    [][/\ Cardinality(packetQueue_') <= MaxQueueSize
       /\ enqueueCount' # enqueueCount
            => (/\ Cardinality(packetQueue_) < MaxQueueSize
                /\ enqRet' = "true"
                /\ Cardinality(packetQueue_') = Cardinality(packetQueue_) + 1)
       /\ enqRet' # enqRet
            => \/ enqRet' = "true" /\ enqueueCount' = enqueueCount + 1
               \/ (/\ enqRet' = "false"
                   /\ Cardinality(packetQueue_) >= MaxQueueSize
                   /\ packetQueue_' = packetQueue_)]_vars

\* C14 witness: an enqueuePacket call was refused on a full queue.
C14_Witness ==
    /\ enqRet = "false"
    /\ Cardinality(packetQueue_) = MaxQueueSize
    /\ enqueueCount >= MaxQueueSize

(***************************************************************************)
(* Claims on the ConnectionManager.                                        *)
(***************************************************************************)
\* C15: a connection that is Connected and has received nothing for the
\* connection timeout is eventually moved to FAILED (unless the application
\* closes it first).
C15_TimeoutMovesToFailed ==
    \A a \in CmAddresses :
        (/\ getConnectionState(a) = "CONNECTED"
         /\ now - connectedAt[a] >= CmTimeout)
            ~> (\/ getConnectionState(a) = "FAILED"
                \/ getConnectionState(a) = "DISCONNECTED")

\* C16: send to an address that is not Connected, or on a manager that is
\* not running, returns false and changes no connection state, no
\* statistics and no queued event.
C16_SendRefusedUnlessConnected ==
    [][\A a \in CmAddresses :
          (CmSend(a, <<1>>)
             /\ ~(cmRunning_ /\ getConnectionState(a) = "CONNECTED"))
            => (/\ cmRet' = [op |-> "send", value |-> FALSE]
                /\ UNCHANGED <<connectionStates_, connectionStats_,
                               eventQueue_, cmRunning_, config_>>)]_vars

\* C16 witness: a send to an address that was connected and then
\* disconnected has been refused.
C16_Witness ==
    /\ cmRet = [op |-> "send", value |-> FALSE]
    /\ cmRunning_
    /\ \E a \in DOMAIN connectionStates_ :
          /\ connectionStates_[a] = "DISCONNECTED"
          /\ a \in DOMAIN connectedAt

\* C17: an initialize call that returns false leaves config_ as it was,
\* and no connection is Connecting or Connected unless some initialize
\* call has returned true.
C17_NoConnectBeforeInitialize ==
    [][/\ \A c \in CmConfigs :
             (CmInitialize(c) /\ ~validateConfig(c)) => config_' = config_
       /\ \A a \in CmAddresses :
             getConnectionState(a)' \in {"CONNECTING", "CONNECTED"}
                => cmInitialized']_vars

\* C18: receive on an empty queue returns false and leaves the caller's
\* message and the queue alone; otherwise it hands out the oldest queued
\* message and removes exactly that one, so that the messages handed out,
\* followed by those still queued, are the messages processIncomingData
\* enqueued, in that order and each once.
C18_ReceiveFifo ==
    [][/\ Receive =>
            IF messageQueue_ = <<>>
            THEN recvOk' = FALSE /\ UNCHANGED <<recvMsg, messageQueue_>>
            ELSE /\ recvOk' = TRUE
                 /\ recvMsg' = Head(messageQueue_)
                 /\ messageQueue_' = Tail(messageQueue_)
       /\ LET out == received' \o messageQueue_'
          IN  /\ Len(out) = Len(enqueued')
              /\ \A i \in 1..Len(out) : out[i].data = enqueued'[i].data]_vars

\* C18 witness: two different messages were received, then a further
\* receive found the queue empty.
C18_Witness ==
    /\ Len(received) = 2
    /\ received[1].data # received[2].data
    /\ recvMsg = received[2]
    /\ messageQueue_ = <<>>
    /\ recvOk = FALSE

(***************************************************************************)
(* Further claims on the Connection.                                       *)
(***************************************************************************)
\* C19: processing an inbound ack (a packet of exactly four bytes) queues
\* no outbound packet and assigns no sequence number.
C19_AckNotAcked ==
    [][\A d \in InboundPackets :
          (ProcessIncomingPacket(d) /\ Len(d) = SizeofU32)
            => (/\ outgoingPackets_' = outgoingPackets_
                /\ nextSequenceNumber_' = nextSequenceNumber_)]_vars

\* C20: every queuePacket call, by the application or by
\* processIncomingPacket for its ack, takes the current value of the counter
\* as sequence number, a number no earlier call was given, and advances the
\* counter by exactly one; the packets of the outgoing queue are in
\* strictly increasing sequence order.
C20_SequenceNumbers ==
    [][/\ (\E d \in Payloads, r \in PacketReliability : QueuePacket(d, r))
            => nextSequenceNumber_' # nextSequenceNumber_
       /\ (\E d \in InboundPackets :
               ProcessIncomingPacket(d) /\ Len(d) >= SizeofU32)
            => nextSequenceNumber_' # nextSequenceNumber_
       /\ (nextSequenceNumber_' # nextSequenceNumber_ \/ queued' # queued)
            => (/\ nextSequenceNumber_' = (nextSequenceNumber_ + 1) % SeqModulus
                /\ nextSequenceNumber_ \notin DOMAIN queued
                /\ DOMAIN queued' = DOMAIN queued \cup {nextSequenceNumber_})
       /\ \A i, j \in 1..Len(outgoingPackets_') :
             i < j => outgoingPackets_'[i].sequenceNumber
                        < outgoingPackets_'[j].sequenceNumber]_vars

\* C20 witness: the outgoing queue holds an ack queued by
\* processIncomingPacket followed by a packet queued by the application.
C20_Witness ==
    /\ Len(outgoingPackets_) = 2
    /\ outgoingPackets_[1].data = EncodeU32(1)
    /\ outgoingPackets_[2].data \in Payloads
    /\ outgoingPackets_[1].sequenceNumber = 0
    /\ outgoingPackets_[2].sequenceNumber = 1

(***************************************************************************)
(* Keep-alive.                                                             *)
(***************************************************************************)
\* C25: a NetworkManager that is running from instant 0 on and sends
\* nothing eventually puts a packet on the wire (its keep-alive, once
\* keepAliveInterval has passed without outbound traffic).
C25_KeepAliveWhenIdle ==
    (running_ /\ now = 0 /\ wire = <<>>) ~> (wire # <<>>)

(***************************************************************************)
(* One datagram from processOutgoingData to processIncomingData, for every *)
(* configuration of compression and encryption, and a call of compress.    *)
(***************************************************************************)
\* The fixed key of the configuration (128 bits).
EncryptionKey == [i \in 1..16 |-> i]

CodecConfigs ==
    {[enableCompression |-> c # "NONE", compressionAlgorithm |-> c,
      enableEncryption |-> e, encryptionMode |-> "GCM",
      encryptionKey |-> EncryptionKey] :
        c \in {"NONE", "LZ4", "ZSTD"}, e \in BOOLEAN}

\* An empty payload, a short one, one that reads as an LZ4 block behind a
\* size, and one below and one at the least size that is compressed.
CodecPayloads ==
    {<<>>, <<7, 8>>, <<1, 0, 0, 0, 16, 65>>, Zeros(MIN_COMPRESSION_SIZE - 1),
     Zeros(MIN_COMPRESSION_SIZE)}

\* What generateIV may draw.
IVs == {[i \in 1..IV_SIZE |-> v] : v \in 0..MaxIvByte}

\* The values of bytes that are read without having been written.
Tails == {<<0, 0, 0, t>> : t \in 0..MaxIndeterminate}

Tags == {[i \in 1..GCM_TAG_SIZE |-> 255 * t] : t \in 0..MaxIndeterminate}

\* The bytes the network may change: the first after the IV (of the
\* ciphertext) and the last (of the tag).
AlteredBytes == {IV_SIZE + 1, 0}

InitCodec ==
    /\ InitBase
    /\ NoHandlerConfig
    /\ NoSocket
    /\ fragIn = NoMessage
    /\ fragSizeIn = 1
    /\ codecConfig \in CodecConfigs
    /\ codecPayload \in CodecPayloads

NextCodec ==
    \/ CompressCall
    \/ \E iv \in IVs, tail \in Tails, tag \in Tags : SendProcessed(iv, tail, tag)
    \/ \E k \in AlteredBytes : AlterPacket(k)
    \/ \E tail \in Tails : ProcessIncomingDatagram(0, tail)

SpecCodec == InitCodec /\ [][NextCodec]_vars

\* C22: with encryption in GCM mode, a datagram that was altered on its way
\* is rejected by processIncomingData: it is dropped and no message is
\* queued.
C22_AlteredPacketRejected ==
    (/\ codecConfig.enableEncryption
     /\ codecConfig.encryptionMode = "GCM"
     /\ codecAltered
     /\ codecPc = "received")
        => (codecResult.kind = "dropped" /\ messageQueue_ = <<>>)

\* C23: for every payload and every configuration of compression and
\* encryption, what processIncomingData makes of the unaltered output of
\* processOutgoingData is the payload.
C23_CodecRoundTrip ==
    (codecPc = "received" /\ ~codecAltered)
        => codecResult = [kind |-> "accepted", data |-> codecPayload]

\* C24: Compression::compress returns for every input, and a payload of at
\* most MIN_COMPRESSION_SIZE bytes is returned unchanged.
C24_CompressReturns ==
    /\ compressRet.kind # "overflow"
    /\ (compressRet.kind = "returned" /\ Len(codecPayload) <= MIN_COMPRESSION_SIZE)
          => compressRet.data = codecPayload

(***************************************************************************)
(* The sequence counter at its wrap.                                       *)
(***************************************************************************)
\* C21: when the sequence counter wraps, a queuePacket call never replaces
\* a packet that is still in the unacknowledged table under the same
\* sequence number, and an ack for a number removes no entry but the one
\* under that number.
C21_NoAliasAtWrap ==
    [][/\ \A d \in Payloads, r \in WrapModes :
             (QueuePacket(d, r) /\ r # "UNRELIABLE")
                => nextSequenceNumber_ \notin DOMAIN unacknowledgedPackets_
       /\ ProcessIncomingPacket(EncodeU32(0))
             => \A s \in DOMAIN unacknowledgedPackets_ \ {0} :
                   s \in DOMAIN unacknowledgedPackets_']_vars

(***************************************************************************)
(* The inputs of the VirtualSocket and its specifications: one thread      *)
(* that sends through the simulation, and the threads that send with the   *)
(* simulation off.                                                         *)
(***************************************************************************)
\* The draws of dist_(rng_), in hundredths.
Rolls == {0, 99}

\* A network without faults and one with every fault at one half.
VsConditions ==
    {[NoCondition EXCEPT !.mtu = MaxMtu],
     [packetLoss |-> 50, latency |-> 1, jitter |-> 0, bandwidth |-> 1,
      corruption |-> 50, reorder |-> 50, mtu |-> MaxMtu]}

\* A payload below the MTU and one above it.
VsPayloads == {<<7>>, [i \in 1..(MaxMtu + 1) |-> 9]}

VsPriorities == {"HIGH_PRIORITY", "MEDIUM_PRIORITY"}

\* VirtualSocket::VirtualSocket() = default, defined in the source file,
\* gives no member of a built-in type a value: isBound_,
\* simulationEnabled_, networkCondition_, statistics_ and
\* bytesInCurrentWindow_ hold whatever the storage held.
IndeterminateConditions ==
    {[packetLoss |-> 50 * v, latency |-> v, jitter |-> 0, bandwidth |-> v,
      corruption |-> 50 * v, reorder |-> 50 * v, mtu |-> v] :
        v \in 0..MaxIndeterminate}

IndeterminateStatistics ==
    {[packetsSent |-> v, packetsReceived |-> v, packetsLost |-> v,
      packetsCorrupted |-> v, packetsReordered |-> v, bytesSent |-> v,
      bytesReceived |-> v, averageLatency |-> v, currentBandwidth |-> v] :
        v \in 0..MaxIndeterminate}

InitSocket ==
    /\ InitBase
    /\ NoHandlerConfig
    /\ fragIn = NoMessage
    /\ fragSizeIn = 1
    /\ codecConfig = ConfigOff
    /\ codecPayload = <<>>
    /\ isBound_ \in BOOLEAN
    /\ isConnected_ \in BOOLEAN
    /\ isListening_ \in BOOLEAN
    /\ simulationEnabled_ \in BOOLEAN
    /\ networkCondition_ \in IndeterminateConditions
    /\ statistics_ \in IndeterminateStatistics
    /\ bytesInCurrentWindow_ \in 0..MaxIndeterminate

\* sendTo and its steps neither read nor write isConnected_ and
\* isListening_: the runs of sendTo start with both false.
InitSendSocket == InitSocket /\ ~isConnected_ /\ ~isListening_

\* The packets of a run.
VsSendBudget == sequenceCounter < MaxVsSends

\* The socket is bound and its network set up before the first packet.
NextSim ==
    \/ sequenceCounter = 0 /\ ~isBound_ /\ VsBind
    \/ \E c \in VsConditions : sequenceCounter = 0 /\ SetNetworkCondition(c)
    \/ \E b \in BOOLEAN : sequenceCounter = 0 /\ EnableSimulation(b)
    \/ \E d \in VsPayloads, p \in VsPriorities : VsSendBudget /\ SendTo(1, d, p)
    \/ \E r \in Rolls : SimulatePacketLoss(1, r)
    \/ \E r \in Rolls, ri \in Rolls, rb \in Rolls : SimulateCorruption(1, r, ri, rb)
    \/ \E r \in Rolls : SimulateLatency(1, r)
    \/ \E r \in Rolls : SimulateReordering(1, r)
    \/ UpdateBandwidth(1)
    \/ PushPacket(1)
    \/ CountPacket(1)

SpecSim == InitSendSocket /\ [][NextSim]_vars

NextThreads ==
    \/ ~isBound_ /\ VsBind
    \/ \E c \in VsConditions : SetNetworkCondition(c)
    \/ \E t \in Threads, d \in VsPayloads, p \in VsPriorities :
          VsSendBudget /\ SendTo(t, d, p)
    \/ \E t \in Threads : PushPacket(t)
    \/ \E t \in Threads : CountPacket(t)

\* The simulation is off.
InitThreads == InitSendSocket /\ ~simulationEnabled_

SpecThreads == InitThreads /\ [][NextThreads]_vars

SimulationSteps == <<"loss", "corruption", "latency", "reordering", "bandwidth">>

\* C26: a packet sent with the simulation on goes through loss, corruption,
\* latency, reordering and the bandwidth cap in that order; a packet that
\* is dropped is in no send queue, goes through no step after the loss, and
\* adds exactly one to packetsLost.
C26_SimulationOrder ==
    /\ [](/\ \A s \in DOMAIN vsSteps :
              /\ Len(vsSteps[s]) <= Len(SimulationSteps)
              /\ vsSteps[s] = SubSeq(SimulationSteps, 1, Len(vsSteps[s]))
          /\ \A s \in vsDropped :
              /\ vsSteps[s] = <<"loss">>
              /\ \A p \in VirtualPriority : \A i \in 1..Len(sendQueues_[p]) :
                    sendQueues_[p][i].sequenceNumber # s
              /\ \A t \in Threads :
                    vsPc[t] # "idle" => vsPacket[t].sequenceNumber # s)
    /\ [][statistics_'.packetsLost =
             statistics_.packetsLost + Cardinality(vsDropped' \ vsDropped)]_vars

C26_DroppedPacket ==
    \E s \in vsDropped : vsSteps[s] = <<"loss">>

C26_Witness ==
    /\ C26_DroppedPacket
    /\ statistics_.packetsLost = 1
    /\ \E p \in VirtualPriority : \E i \in 1..Len(sendQueues_[p]) :
          /\ vsSteps[sendQueues_[p][i].sequenceNumber] = SimulationSteps
          /\ sendQueues_[p][i].isCorrupted
          /\ sendQueues_[p][i].sequenceNumber > 0

\* C28: with the simulation off, the packets of each priority queue are in
\* the order of their sequence numbers, whichever threads call sendTo.
C28_QueueInSequenceOrder ==
    ~simulationEnabled_
        => \A p \in VirtualPriority :
              \A i \in 1..Len(sendQueues_[p]), j \in 1..Len(sendQueues_[p]) :
                 i < j => sendQueues_[p][i].sequenceNumber
                             < sendQueues_[p][j].sequenceNumber

(***************************************************************************)
(* What queuePacket tracks.                                                *)
(***************************************************************************)
\* C27: the unacknowledged table holds packets of the Reliable modes only
\* (a packet of mode Unreliable or UnreliableSequenced goes to the outgoing
\* queue and is never tracked), and no packet of an unreliable mode is
\* returned by getPacketsToSend more than once.
C27_OnlyReliableTracked ==
    /\ \A s \in DOMAIN unacknowledgedPackets_ :
          unacknowledgedPackets_[s].reliability \in ReliableModes
    /\ \A s \in DOMAIN queued :
          queued[s] \notin ReliableModes => sendCount[s] <= 1

(***************************************************************************)
(* The message-id counter up to its wrap: send calls alone, one more than  *)
(* the counter has values.                                                 *)
(***************************************************************************)
NextIds ==
    \/ StartServer
    \/ \E m \in NMMessages : Len(sends) <= MsgIdModulus /\ Send(m)

SpecIds == Init /\ [][NextIds]_vars

\* C29: the packets that one send call puts on the wire carry one message
\* id, and the packets of two send calls carry two ids, the wrap of the
\* counter included.
C29_OneIdPerMessage ==
    \A i \in 1..Len(wire), j \in 1..Len(wire) :
       (wire[i].call = wire[j].call)
          <=> (wire[i].msg.messageId = wire[j].msg.messageId)

(***************************************************************************)
(* The last activity of a peer.                                            *)
(***************************************************************************)
\* C30: a fragment that processIncomingData has taken into a group that is
\* not yet complete has refreshed the last activity of its sender (client
\* 0): lastActivity_ holds an instant for the client that is no earlier
\* than the start of the group.
C30_FragmentRefreshesActivity ==
    \A id \in DOMAIN fragmentMap_ :
       fragmentMap_[id].receivedFragments > 0
          => /\ 0 \in DOMAIN lastActivity_
             /\ lastActivity_[0] >= fragmentMap_[id].timestamp

(***************************************************************************)
(* The reordering step on a queue of three: one packet more than the runs  *)
(* of the simulation above, all of MEDIUM_PRIORITY.                        *)
(***************************************************************************)
NextReorder ==
    \/ sequenceCounter = 0 /\ ~isBound_ /\ VsBind
    \/ \E c \in VsConditions : sequenceCounter = 0 /\ SetNetworkCondition(c)
    \/ \E b \in BOOLEAN : sequenceCounter = 0 /\ EnableSimulation(b)
    \/ \E d \in VsPayloads :
          /\ Cardinality(DOMAIN vsSteps) <= MaxVsSends
          /\ SendTo(1, d, "MEDIUM_PRIORITY")
    \/ \E r \in Rolls : SimulatePacketLoss(1, r)
    \/ \E r \in Rolls, ri \in Rolls, rb \in Rolls : SimulateCorruption(1, r, ri, rb)
    \/ \E r \in Rolls : SimulateLatency(1, r)
    \/ \E r \in Rolls : SimulateReordering(1, r)
    \/ UpdateBandwidth(1)
    \/ PushPacket(1)
    \/ CountPacket(1)

SpecReorder == InitSendSocket /\ [][NextReorder]_vars

\* C31: a reordering step that changes a priority queue exchanges its two
\* most recently queued packets (the last two) and leaves every other
\* packet where it was.
C31_ReorderSwapsLastTwo ==
    [][\A p \in VirtualPriority :
          (vsPc[1] = "reordering" /\ sendQueues_'[p] # sendQueues_[p])
             => LET queue == sendQueues_[p]
                    n == Len(queue)
                IN  /\ n >= 2
                    /\ sendQueues_'[p] =
                          SubSeq(queue, 1, n - 2) \o <<queue[n], queue[n - 1]>>]_vars

(***************************************************************************)
(* ConnectionManager::stop step by step, beside start, connect and         *)
(* disconnect of other threads.  running_ is a std::atomic<bool>;          *)
(* connectionsMutex_ is a std::mutex, which its owner must not lock again. *)
(***************************************************************************)
\* The order in which std::map<std::string, ...> holds the addresses.
CmAddressOrder == <<<<10, 0, 0, 1>>, <<10, 0, 0, 2>>, <<10, 0, 256, 1>>>>

InTable(address) == address \in DOMAIN connectionStates_

\* What locking a std::mutex that the thread already owns may do: block
\* for ever, or throw std::system_error (resource_deadlock_would_occur),
\* which leaves stop through its lock_guard.
Relocks == {"blocks", "throws"}

\* stop: the test of running_ and the two stores.
StopBegin ==
    /\ stopPc = "idle"
    /\ cmRunning_
    /\ cmRunning_' = FALSE
    /\ monitoring_' = FALSE
    /\ stopPc' = "lock"
    /\ UNCHANGED <<config_, connectionStates_, connectionStats_, eventQueue_,
                   cmRet, cmInitialized, connectedAt, connectionsMutex_, stopTodo,
                   nonStopVars>>

\* stop: std::lock_guard<std::mutex> lock(connectionsMutex_) and the start
\* of the loop over connectionStates_.
StopLock ==
    /\ stopPc = "lock"
    /\ connectionsMutex_ = "free"
    /\ connectionsMutex_' = "stop"
    /\ stopTodo' = SelectSeq(CmAddressOrder, InTable)
    /\ stopPc' = "loop"
    /\ UNCHANGED <<cmRunning_, monitoring_, config_, connectionStates_,
                   connectionStats_, eventQueue_, cmRet, cmInitialized,
                   connectedAt, nonStopVars>>

\* stop: one turn of the loop.  For a CONNECTED entry disconnect(address)
\* is called: it returns at once while running_ is false, and otherwise
\* locks connectionsMutex_, which the thread holds.
StopVisit(relock) ==
    LET address == Head(stopTodo)
    IN  /\ stopPc = "loop"
        /\ stopTodo # <<>>
        /\ IF isConnected(address) /\ cmRunning_
           THEN IF relock = "blocks"
                THEN /\ stopPc' = "blocked"
                     /\ UNCHANGED <<connectionsMutex_, stopTodo, cmRet>>
                ELSE /\ stopPc' = "idle"
                     /\ connectionsMutex_' = "free"
                     /\ stopTodo' = <<>>
                     /\ cmRet' = [op |-> "stop", value |-> FALSE]
           ELSE /\ stopTodo' = Tail(stopTodo)
                /\ UNCHANGED <<connectionsMutex_, stopPc, cmRet>>
        /\ UNCHANGED <<cmRunning_, monitoring_, config_, connectionStates_,
                       connectionStats_, eventQueue_, cmInitialized, connectedAt,
                       nonStopVars>>

\* stop: connectionStates_.clear() and the return, which unlocks.
StopClear ==
    /\ stopPc = "loop"
    /\ stopTodo = <<>>
    /\ connectionStates_' = EmptyMap
    /\ connectionsMutex_' = "free"
    /\ stopPc' = "idle"
    /\ cmRet' = [op |-> "stop", value |-> TRUE]
    /\ UNCHANGED <<cmRunning_, monitoring_, config_, connectionStats_,
                   eventQueue_, cmInitialized, connectedAt, stopTodo,
                   nonStopVars>>

\* connect and disconnect wait for connectionsMutex_.
NextStop ==
    \/ CmStart
    \/ StopBegin
    \/ StopLock
    \/ \E relock \in Relocks : StopVisit(relock)
    \/ StopClear
    \/ \E a \in CmAddresses, p \in CmPorts :
          connectionsMutex_ = "free" /\ CmConnect(a, p)
    \/ \E a \in CmAddresses : connectionsMutex_ = "free" /\ CmDisconnect(a)

SpecStop == Init /\ [][NextStop]_vars

\* C32: stop never waits for ever, and when it has run it has cleared the
\* table, having moved every CONNECTED connection to DISCONNECTED before
\* (which is what reports the DISCONNECTED event of the connection).
C32_StopDisconnectsAll ==
    /\ [](stopPc # "blocked")
    /\ [][(stopPc = "loop" /\ stopPc' = "idle")
             => /\ connectionStates_' = EmptyMap
                /\ \A a \in DOMAIN connectionStates_ :
                      connectionStates_[a] # "CONNECTED"]_vars

(***************************************************************************)
(* The locking of the operations on the unacknowledged table and outgoing  *)
(* queue of a Connection (packetMutex_) and on connectionStates_ of the    *)
(* ConnectionManager (connectionsMutex_).  An operation is the row of its  *)
(* steps: "test" reads running_, "lock" and "unlock" are the life of its   *)
(* std::lock_guard, "access" is a read or write of the table.              *)
(***************************************************************************)
LockedAccess == <<"lock", "access", "unlock">>
TestedAccess == <<"test", "lock", "access", "unlock">>

\* The operations of Connection with no lock taken.
connectionStepsUnlocked(op) == <<"access">>

\* The operations of Connection.  processIncomingPacket calls queuePacket,
\* which locks and unlocks, then locks for handleAcknowledgment.
connectionSteps(op) ==
    CASE op = "queuePacket" -> LockedAccess
      [] op = "processIncomingPacket" -> LockedAccess \o LockedAccess
      [] op = "getPacketsToSend" -> LockedAccess
      [] OTHER -> LockedAccess         \* update

ConnectionOps ==
    {"queuePacket", "processIncomingPacket", "getPacketsToSend", "update"}

\* The operations of ConnectionManager on connectionStates_.  stop calls
\* disconnect with the mutex held: disconnect returns at its test of
\* running_, or, after a concurrent start, locks the mutex its own thread
\* holds, which blocks for ever or throws out of stop.
managerSteps(op) ==
    CASE op = "stop" -> <<"test", "lock", "access", "test", "access", "unlock">>
      [] op = "stopRelockBlocks" -> <<"test", "lock", "access", "test", "lock">>
      [] op = "stopRelockThrows" -> <<"test", "lock", "access", "test", "unlock">>
      [] op = "connect" -> TestedAccess
      [] op = "disconnect" -> TestedAccess
      [] op = "checkConnections" -> TestedAccess
      [] op = "cleanupStaleConnections" -> TestedAccess
      [] OTHER -> LockedAccess   \* isConnected, getConnectedPeers, getConnectionState

ManagerOps ==
    {"stop", "stopRelockBlocks", "stopRelockThrows", "connect", "disconnect",
     "isConnected", "getConnectedPeers",
     "getConnectionState", "checkConnections", "cleanupStaleConnections"}

StepsOf(op) ==
    IF op \in ConnectionOps THEN connectionSteps(op) ELSE managerSteps(op)

MutexOf(op) ==
    IF op \in ConnectionOps THEN "packetMutex_" ELSE "connectionsMutex_"

\* The step a thread is at, "none" outside every operation.
StepAt(t) ==
    IF threadOp[t] = "none" THEN "none" ELSE StepsOf(threadOp[t])[threadPos[t]]

\* The thread has done its step: it leaves the operation after the last.
Advance(t) ==
    IF threadPos[t] = Len(StepsOf(threadOp[t]))
    THEN /\ threadOp' = [threadOp EXCEPT ![t] = "none"]
         /\ threadPos' = [threadPos EXCEPT ![t] = 1]
    ELSE /\ threadPos' = [threadPos EXCEPT ![t] = @ + 1]
         /\ UNCHANGED threadOp

NonLockVars ==
    <<now, loopVars, connVars, nmVars, schedVars, fragVars, cmVars, vsSocketVars, cmStepVars, mhVars, stopVars,
      codecVars, vsVars>>

\* A thread calls an operation.
CallOperation(t, op) ==
    /\ threadOp[t] = "none"
    /\ threadOp' = [threadOp EXCEPT ![t] = op]
    /\ threadPos' = [threadPos EXCEPT ![t] = 1]
    /\ UNCHANGED <<mutexOwner, NonLockVars>>

\* if (!running_) return ...: no table is touched.
TestRunning(t) ==
    /\ StepAt(t) = "test"
    /\ Advance(t)
    /\ UNCHANGED <<mutexOwner, NonLockVars>>

\* std::lock_guard<std::mutex> lock(...): waits until the mutex is free.
AcquireMutex(t) ==
    /\ StepAt(t) = "lock"
    /\ mutexOwner[MutexOf(threadOp[t])] = 0
    /\ mutexOwner' = [mutexOwner EXCEPT ![MutexOf(threadOp[t])] = t]
    /\ Advance(t)
    /\ UNCHANGED NonLockVars

\* The reads and writes of the table.
TouchTable(t) ==
    /\ StepAt(t) = "access"
    /\ Advance(t)
    /\ UNCHANGED <<mutexOwner, NonLockVars>>

\* The end of the scope of the lock_guard.
ReleaseMutex(t) ==
    /\ StepAt(t) = "unlock"
    /\ mutexOwner' = [mutexOwner EXCEPT ![MutexOf(threadOp[t])] = 0]
    /\ Advance(t)
    /\ UNCHANGED NonLockVars

NextLocks ==
    \/ \E t \in Threads, op \in ConnectionOps \cup ManagerOps : CallOperation(t, op)
    \/ \E t \in Threads : TestRunning(t)
    \/ \E t \in Threads : AcquireMutex(t)
    \/ \E t \in Threads : TouchTable(t)
    \/ \E t \in Threads : ReleaseMutex(t)

SpecLocks == Init /\ [][NextLocks]_vars

\* C33: a thread that is at a read or write of a table holds the mutex of
\* the table, and no two threads are at the same table at once.
C33_TablesUnderMutex ==
    \A t \in Threads :
       StepAt(t) = "access"
          => /\ mutexOwner[MutexOf(threadOp[t])] = t
             /\ \A u \in Threads \ {t} :
                   StepAt(u) = "access" => MutexOf(threadOp[u]) # MutexOf(threadOp[t])

\* One thread is at the table and another waits for the mutex.
C33_Witness ==
    \E t \in Threads, u \in Threads :
       /\ t # u
       /\ StepAt(t) = "access"
       /\ StepAt(u) = "lock"
       /\ MutexOf(threadOp[u]) = MutexOf(threadOp[t])

(***************************************************************************)
(* MessageHandler.  A call that can meet another thread between its test   *)
(* of running_ and its use of the queue is taken in steps; the body of a   *)
(* lock_guard of queueMutex_ is one step, taken when the mutex is free.    *)
(***************************************************************************)
NonMhVars ==
    <<now, loopVars, connVars, nmVars, schedVars, fragVars, cmVars, vsSocketVars, cmStepVars, stopVars,
      lockVars, codecVars, vsVars>>

MhEvent(type, message) == [type |-> type, id |-> message.id]

\* handleMessageEvent: the event reaches eventCallback_ only while running_.
handleMessageEvent(events, type, message) ==
    IF mhRunning_ THEN Append(events, MhEvent(type, message)) ELSE events

\* validateMessage: every message passes when validation is off.
validateMessage(valid) == ~mhEnableValidation \/ valid

\* resizeQueue's loop: pops the front while the queue is longer than size.
RECURSIVE popDownTo(_, _)
popDownTo(queue, size) ==
    IF Len(queue) > size THEN popDownTo(Tail(queue), size) ELSE queue

\* The MESSAGE_PROCESSED events of processQueue, one for each message.
RECURSIVE processedEvents(_, _)
processedEvents(events, queue) ==
    IF queue = <<>> THEN events
    ELSE processedEvents(Append(events, MhEvent("MESSAGE_PROCESSED", Head(queue))),
                         Tail(queue))

\* initialize(config): resizeQueue takes queueMutex_ itself.
MhInitialize(size, validation) ==
    /\ \A t \in Threads : mhPc[t] = "idle"
    /\ mhQueueMutex_ = 0
    /\ IF mhRunning_
       THEN UNCHANGED <<mhMessageQueue_, mhMaxQueueSize, mhEnableValidation>>
       ELSE /\ mhEnableValidation' = validation
            /\ mhMessageQueue_' = popDownTo(mhMessageQueue_, size)
            /\ mhMaxQueueSize' = size
    /\ mhRet' = [op |-> "initialize", value |-> TRUE]
    /\ UNCHANGED <<mhRunning_, mhQueueMutex_, mhEvents, mhPc, mhArg, mhSize,
                   mhNextId, NonMhVars>>

MhStart ==
    /\ ~mhRunning_
    /\ mhRunning_' = TRUE
    /\ mhRet' = [op |-> "start", value |-> TRUE]
    /\ UNCHANGED <<mhMessageQueue_, mhMaxQueueSize, mhEnableValidation,
                   mhQueueMutex_, mhEvents, mhPc, mhArg, mhSize, mhNextId,
                   NonMhVars>>

\* stop: if (!running_) return; running_ = false;
MhStopBegin(t) ==
    /\ mhPc[t] = "idle"
    /\ IF mhRunning_
       THEN /\ mhRunning_' = FALSE
            /\ mhPc' = [mhPc EXCEPT ![t] = "clear"]
            /\ UNCHANGED mhRet
       ELSE /\ mhRet' = [op |-> "stop", value |-> FALSE]
            /\ UNCHANGED <<mhRunning_, mhPc>>
    /\ UNCHANGED <<mhMessageQueue_, mhMaxQueueSize, mhEnableValidation,
                   mhQueueMutex_, mhEvents, mhArg, mhSize, mhNextId, NonMhVars>>

\* stop: clear(), which empties the queue under queueMutex_, and the return.
MhStopClear(t) ==
    /\ mhPc[t] = "clear"
    /\ mhQueueMutex_ = 0
    /\ mhMessageQueue_' = <<>>
    /\ mhPc' = [mhPc EXCEPT ![t] = "idle"]
    /\ mhRet' = [op |-> "stop", value |-> TRUE]
    /\ UNCHANGED <<mhRunning_, mhMaxQueueSize, mhEnableValidation, mhQueueMutex_,
                   mhEvents, mhArg, mhSize, mhNextId, NonMhVars>>

\* send: if (!running_ || !validateMessage(message)) return false;
MhSend(t, valid) ==
    /\ mhPc[t] = "idle"
    /\ IF ~mhRunning_ \/ ~validateMessage(valid)
       THEN /\ mhRet' = [op |-> "send", value |-> FALSE]
            /\ UNCHANGED <<mhPc, mhArg, mhNextId>>
       ELSE /\ mhPc' = [mhPc EXCEPT ![t] = "send_enqueue"]
            /\ mhArg' = [mhArg EXCEPT ![t] = [id |-> mhNextId + 1, retryCount |-> 0]]
            /\ mhNextId' = mhNextId + 1
            /\ UNCHANGED mhRet
    /\ UNCHANGED <<mhRunning_, mhMessageQueue_, mhMaxQueueSize, mhEnableValidation,
                   mhQueueMutex_, mhEvents, mhSize, NonMhVars>>

\* retryMessage up to its call of enqueueMessage, or all of it when the
\* message has no retry left (dropMessage).
MhRetryMessage(t, message) ==
    /\ mhPc[t] = "idle"
    /\ IF ~mhRunning_
       THEN UNCHANGED <<mhPc, mhArg, mhEvents>>
       ELSE IF message.retryCount < maxRetries
            THEN /\ mhPc' = [mhPc EXCEPT ![t] = "retry_enqueue"]
                 /\ mhArg' = [mhArg EXCEPT ![t] =
                                 [message EXCEPT !.retryCount = @ + 1]]
                 /\ UNCHANGED mhEvents
            ELSE /\ mhEvents' = handleMessageEvent(mhEvents, "MESSAGE_DROPPED", message)
                 /\ UNCHANGED <<mhPc, mhArg>>
    /\ mhRet' = IF mhRunning_ /\ message.retryCount < maxRetries
                THEN mhRet ELSE [op |-> "retryMessage", value |-> FALSE]
    /\ UNCHANGED <<mhRunning_, mhMessageQueue_, mhMaxQueueSize, mhEnableValidation,
                   mhQueueMutex_, mhSize, mhNextId, NonMhVars>>

\* enqueueMessage, under queueMutex_.
enqueueMessage(t) ==
    /\ mhPc[t] \in {"send_enqueue", "retry_enqueue"}
    /\ mhQueueMutex_ = 0
    /\ IF Len(mhMessageQueue_) >= mhMaxQueueSize
       THEN /\ mhEvents' = handleMessageEvent(mhEvents, "QUEUE_FULL", mhArg[t])
            /\ UNCHANGED mhMessageQueue_
       ELSE /\ mhMessageQueue_' = Append(mhMessageQueue_, mhArg[t])
            /\ UNCHANGED mhEvents
    /\ mhPc' = [mhPc EXCEPT ![t] =
                   IF mhPc[t] = "send_enqueue" THEN "send_event" ELSE "retry_event"]
    /\ UNCHANGED <<mhRunning_, mhMaxQueueSize, mhEnableValidation, mhQueueMutex_,
                   mhArg, mhSize, mhRet, mhNextId, NonMhVars>>

\* The end of send: the MESSAGE_SENT event and return true.
MhSendReturn(t) ==
    /\ mhPc[t] = "send_event"
    /\ mhEvents' = handleMessageEvent(mhEvents, "MESSAGE_SENT", mhArg[t])
    /\ mhRet' = [op |-> "send", value |-> TRUE]
    /\ mhPc' = [mhPc EXCEPT ![t] = "idle"]
    /\ UNCHANGED <<mhRunning_, mhMessageQueue_, mhMaxQueueSize, mhEnableValidation,
                   mhQueueMutex_, mhArg, mhSize, mhNextId, NonMhVars>>

\* The end of retryMessage: the MESSAGE_RETRIED event.
MhRetryReturn(t) ==
    /\ mhPc[t] = "retry_event"
    /\ mhEvents' = handleMessageEvent(mhEvents, "MESSAGE_RETRIED", mhArg[t])
    /\ mhRet' = [op |-> "retryMessage", value |-> TRUE]
    /\ mhPc' = [mhPc EXCEPT ![t] = "idle"]
    /\ UNCHANGED <<mhRunning_, mhMessageQueue_, mhMaxQueueSize, mhEnableValidation,
                   mhQueueMutex_, mhArg, mhSize, mhNextId, NonMhVars>>

\* process: processQueue hands every queued message to its callback; the
\* queue checkTimeouts then finds is empty.
MhProcess(t, due) ==
    /\ mhPc[t] = "idle"
    /\ mhQueueMutex_ = 0
    /\ IF mhRunning_ /\ due
       THEN /\ mhEvents' = processedEvents(mhEvents, mhMessageQueue_)
            /\ mhMessageQueue_' = <<>>
       ELSE UNCHANGED <<mhEvents, mhMessageQueue_>>
    /\ mhRet' = [op |-> "process", value |-> mhRunning_]
    /\ UNCHANGED <<mhRunning_, mhMaxQueueSize, mhEnableValidation, mhQueueMutex_,
                   mhPc, mhArg, mhSize, mhNextId, NonMhVars>>

\* setQueueSize: std::lock_guard<std::mutex> lock(queueMutex_);
MhSetQueueSize(t, size) ==
    /\ mhPc[t] = "idle"
    /\ mhQueueMutex_ = 0
    /\ mhQueueMutex_' = t
    /\ mhPc' = [mhPc EXCEPT ![t] = "resize"]
    /\ mhSize' = [mhSize EXCEPT ![t] = size]
    /\ UNCHANGED <<mhRunning_, mhMessageQueue_, mhMaxQueueSize, mhEnableValidation,
                   mhEvents, mhArg, mhRet, mhNextId, NonMhVars>>

\* setQueueSize: resizeQueue(size), whose first statement locks queueMutex_,
\* which this thread holds: the lock blocks for ever, or throws and the
\* exception leaves setQueueSize through its lock_guard.
resizeQueue(t, relock) ==
    /\ mhPc[t] = "resize"
    /\ IF relock = "blocks"
       THEN /\ mhPc' = [mhPc EXCEPT ![t] = "blocked"]
            /\ UNCHANGED <<mhQueueMutex_, mhRet>>
       ELSE /\ mhPc' = [mhPc EXCEPT ![t] = "idle"]
            /\ mhQueueMutex_' = 0
            /\ mhRet' = [op |-> "setQueueSize", value |-> FALSE]
    /\ UNCHANGED <<mhRunning_, mhMessageQueue_, mhMaxQueueSize, mhEnableValidation,
                   mhEvents, mhArg, mhSize, mhNextId, NonMhVars>>

\* MessageHandler::MessageHandler() sets running_ and the statistics only:
\* config_ holds whatever the storage held.
InitHandler ==
    /\ InitBase
    /\ NoSocket
    /\ fragIn = NoMessage
    /\ fragSizeIn = 1
    /\ codecConfig = ConfigOff
    /\ codecPayload = <<>>
    /\ mhMaxQueueSize \in 0..MaxMhQueueSize
    /\ mhEnableValidation \in BOOLEAN

\* The messages and events of a run.
MhBudget == mhNextId < MaxMhSends /\ Len(mhEvents) < MaxMhEvents

MhMessages ==
    {[id |-> i, retryCount |-> r] : i \in 1..mhNextId, r \in 0..maxRetries}

\* One caller.
NextHandler ==
    \/ \E size \in 0..MaxMhQueueSize, v \in BOOLEAN : MhInitialize(size, v)
    \/ MhStart
    \/ MhStopBegin(1)
    \/ MhStopClear(1)
    \/ \E valid \in BOOLEAN : MhBudget /\ MhSend(1, valid)
    \/ \E message \in MhMessages :
          Len(mhEvents) < MaxMhEvents /\ MhRetryMessage(1, message)
    \/ enqueueMessage(1)
    \/ MhSendReturn(1)
    \/ MhRetryReturn(1)
    \/ \E due \in BOOLEAN : Len(mhEvents) < MaxMhEvents /\ MhProcess(1, due)
    \/ \E size \in 0..MaxMhQueueSize : MhSetQueueSize(1, size)
    \/ \E relock \in Relocks : resizeQueue(1, relock)

SpecHandler == InitHandler /\ [][NextHandler]_vars

\* Threads that start, stop, send and retry.
MhThreadsBudget == mhNextId < MaxMhThreadSends /\ Len(mhEvents) < MaxMhThreadSends

NextHandlers ==
    \/ MhStart
    \/ \E t \in Threads : MhStopBegin(t)
    \/ \E t \in Threads : MhStopClear(t)
    \/ \E t \in Threads : MhThreadsBudget /\ MhSend(t, TRUE)
    \/ \E t \in Threads, message \in MhMessages :
          MhThreadsBudget /\ MhRetryMessage(t, message)
    \/ \E t \in Threads : enqueueMessage(t)
    \/ \E t \in Threads : MhSendReturn(t)
    \/ \E t \in Threads : MhRetryReturn(t)

SpecHandlers == InitHandler /\ [][NextHandlers]_vars

InQueue(message) == \E i \in 1..Len(mhMessageQueue_) : mhMessageQueue_[i] = message

\* C34: when send returns true its message is in the queue, and the
\* MESSAGE_SENT event is raised for a message in the queue only: a send that
\* found the queue at capacity does not come to its return of true.
C34_SendTrueOnlyIfAppended ==
    [][\A t \in Threads :
          mhPc[t] = "send_event" /\ mhPc'[t] = "idle"
             => InQueue(mhArg[t])]_vars

\* C35: setQueueSize(n) comes back, and then the queue holds at most n
\* messages and the capacity is n.
C35_SetQueueSizeCompletes ==
    /\ [](\A t \in Threads : mhPc[t] # "blocked")
    /\ [][\A t \in Threads :
             mhPc[t] = "resize" /\ mhPc'[t] = "idle"
                => /\ mhRet'.value = TRUE
                   /\ mhMaxQueueSize' = mhSize[t]
                   /\ Len(mhMessageQueue_') <= mhSize[t]]_vars

\* C36: while the handler is stopped and no thread is inside stop, the queue
\* is empty.
C36_EmptyAfterStop ==
    (~mhRunning_ /\ \A t \in Threads : mhPc[t] # "clear")
       => mhMessageQueue_ = <<>>

(***************************************************************************)
(* ConnectionManager: connect, disconnect, cleanupStaleConnections and     *)
(* getConnectionState step by step, beside the steps of stop.  A thread    *)
(* holds connectionsMutex_ from its lock step to the end of its call.      *)
(***************************************************************************)
NonCmStepVars ==
    <<now, loopVars, connVars, nmVars, schedVars, fragVars, mhVars, lockVars,
      codecVars, vsVars, vsSocketVars>>

\* std::lock_guard<std::mutex> lock(connectionsMutex_) may go on.
connectionsMutexIgnored == TRUE

connectionsMutexFree == connectionsMutex_ = "free"

\* connect: bool success = true;
success == TRUE

\* connect: the tests before the lock.
ConnectBegin(t, address, port) ==
    /\ cmPc[t] = "idle"
    /\ IF ~cmRunning_ \/ ~validateAddress(address) \/ ~validatePort(port)
       THEN /\ cmRet' = [op |-> "connect", value |-> FALSE]
            /\ UNCHANGED <<cmPc, cmArg>>
       ELSE /\ cmPc' = [cmPc EXCEPT ![t] = "connect_lock"]
            /\ cmArg' = [cmArg EXCEPT ![t] = address]
            /\ UNCHANGED cmRet
    /\ UNCHANGED <<cmRunning_, monitoring_, config_, connectionStates_,
                   connectionStats_, eventQueue_, cmInitialized, connectedAt,
                   stopVars, NonCmStepVars>>

\* connect: the lock, the test for CONNECTED and the store of CONNECTING.
ConnectLock(t) ==
    /\ cmPc[t] = "connect_lock"
    /\ connectionsMutexFree
    /\ IF isConnected(cmArg[t])
       THEN /\ cmRet' = [op |-> "connect", value |-> TRUE]
            /\ cmPc' = [cmPc EXCEPT ![t] = "idle"]
            /\ UNCHANGED <<connectionStates_, connectionsMutex_>>
       ELSE /\ connectionStates_' = MapPut(connectionStates_, cmArg[t], "CONNECTING")
            /\ connectionsMutex_' = "connect"
            /\ cmPc' = [cmPc EXCEPT ![t] = "connect_attempt"]
            /\ UNCHANGED cmRet
    /\ UNCHANGED <<cmRunning_, monitoring_, config_, connectionStats_, eventQueue_,
                   cmInitialized, connectedAt, stopPc, stopTodo, cmArg,
                   NonCmStepVars>>

\* connect: the attempt, the store of its outcome, the event and the return.
ConnectAttempt(t) ==
    /\ cmPc[t] = "connect_attempt"
    /\ connectionStates_' =
          MapPut(connectionStates_, cmArg[t], IF success THEN "CONNECTED" ELSE "FAILED")
    /\ eventQueue_' =
          Append(eventQueue_,
                 ConnectionEvent(IF success THEN "CONNECTED" ELSE "CONNECTION_FAILED",
                                 cmArg[t]))
    /\ connectedAt' = MapPut(connectedAt, cmArg[t], now)
    /\ connectionsMutex_' = "free"
    /\ cmRet' = [op |-> "connect", value |-> success]
    /\ cmPc' = [cmPc EXCEPT ![t] = "idle"]
    /\ UNCHANGED <<cmRunning_, monitoring_, config_, connectionStats_,
                   cmInitialized, stopPc, stopTodo, cmArg, NonCmStepVars>>

\* disconnect: if (!running_) return;
DisconnectBegin(t, address) ==
    /\ cmPc[t] = "idle"
    /\ IF ~cmRunning_
       THEN /\ cmRet' = [op |-> "disconnect", value |-> FALSE]
            /\ UNCHANGED <<cmPc, cmArg>>
       ELSE /\ cmPc' = [cmPc EXCEPT ![t] = "disconnect_lock"]
            /\ cmArg' = [cmArg EXCEPT ![t] = address]
            /\ UNCHANGED cmRet
    /\ UNCHANGED <<cmRunning_, monitoring_, config_, connectionStates_,
                   connectionStats_, eventQueue_, cmInitialized, connectedAt,
                   stopVars, NonCmStepVars>>

\* disconnect: the lock, the test for CONNECTED (connectionStates_[address]
\* makes a DISCONNECTED entry for an unknown address) and the store of
\* DISCONNECTING.
DisconnectLock(t) ==
    /\ cmPc[t] = "disconnect_lock"
    /\ connectionsMutexFree
    /\ IF isConnected(cmArg[t])
       THEN /\ connectionStates_' = MapPut(connectionStates_, cmArg[t], "DISCONNECTING")
            /\ connectionsMutex_' = "disconnect"
            /\ cmPc' = [cmPc EXCEPT ![t] = "disconnect_finish"]
            /\ UNCHANGED cmRet
       ELSE /\ connectionStates_' =
                  MapPut(connectionStates_, cmArg[t], getConnectionState(cmArg[t]))
            /\ cmRet' = [op |-> "disconnect", value |-> TRUE]
            /\ cmPc' = [cmPc EXCEPT ![t] = "idle"]
            /\ UNCHANGED connectionsMutex_
    /\ UNCHANGED <<cmRunning_, monitoring_, config_, connectionStats_, eventQueue_,
                   cmInitialized, connectedAt, stopPc, stopTodo, cmArg,
                   NonCmStepVars>>

\* disconnect: the store of DISCONNECTED, the event and the return.
DisconnectFinish(t) ==
    /\ cmPc[t] = "disconnect_finish"
    /\ connectionStates_' = MapPut(connectionStates_, cmArg[t], "DISCONNECTED")
    /\ eventQueue_' = Append(eventQueue_, ConnectionEvent("DISCONNECTED", cmArg[t]))
    /\ connectionsMutex_' = "free"
    /\ cmRet' = [op |-> "disconnect", value |-> TRUE]
    /\ cmPc' = [cmPc EXCEPT ![t] = "idle"]
    /\ UNCHANGED <<cmRunning_, monitoring_, config_, connectionStats_,
                   cmInitialized, connectedAt, stopPc, stopTodo, cmArg,
                   NonCmStepVars>>

\* The table without the addresses of a set.
RECURSIVE EraseAll(_, _)
EraseAll(map, addresses) ==
    IF addresses = {} THEN map
    ELSE LET a == CHOOSE x \in addresses : TRUE
         IN  EraseAll(MapErase(map, a), addresses \ {a})

\* cleanupStaleConnections: under the lock, the CONNECTED entries whose
\* last activity is older than the timeout (stale) get a CONNECTION_TIMEOUT
\* event and are erased.
cleanupStaleConnections(t, stale) ==
    /\ cmPc[t] = "idle"
    /\ connectionsMutexFree
    /\ cmRunning_
    /\ \A a \in stale : isConnected(a)
    /\ connectionStates_' = EraseAll(connectionStates_, stale)
    /\ eventQueue_' =
          LET inOrder == SelectSeq(CmAddressOrder, LAMBDA a : a \in stale)
          IN  eventQueue_ \o [i \in 1..Len(inOrder) |->
                                 ConnectionEvent("CONNECTION_TIMEOUT", inOrder[i])]
    /\ cmRet' = [op |-> "cleanupStaleConnections", value |-> TRUE]
    /\ UNCHANGED <<cmRunning_, monitoring_, config_, connectionStats_,
                   cmInitialized, connectedAt, stopVars, cmStepVars, NonCmStepVars>>

\* getConnectionState: reads the table under the lock.
GetConnectionState(t, address) ==
    /\ cmPc[t] = "idle"
    /\ connectionsMutexFree
    /\ cmRet' = [op |-> "getConnectionState", value |-> getConnectionState(address)]
    /\ UNCHANGED <<cmRunning_, monitoring_, config_, connectionStates_,
                   connectionStats_, eventQueue_, cmInitialized, connectedAt,
                   stopVars, cmStepVars, NonCmStepVars>>

StateAddresses == {<<10, 0, 0, 1>>, <<10, 0, 0, 2>>}

\* The two threads that call, and the events of a run.
StateCallers == {1, 2}
EventBudget == Len(eventQueue_) < MaxStateEvents

NextStates ==
    \/ CmStart
    \/ StopBegin
    \/ StopLock
    \/ \E relock \in Relocks : StopVisit(relock)
    \/ StopClear
    \/ \E t \in StateCallers, a \in StateAddresses, p \in CmPorts :
          EventBudget /\ ConnectBegin(t, a, p)
    \/ \E t \in StateCallers : ConnectLock(t)
    \/ \E t \in StateCallers : ConnectAttempt(t)
    \/ \E t \in StateCallers, a \in StateAddresses : EventBudget /\ DisconnectBegin(t, a)
    \/ \E t \in StateCallers : DisconnectLock(t)
    \/ \E t \in StateCallers : DisconnectFinish(t)
    \/ \E t \in StateCallers, stale \in SUBSET StateAddresses :
          EventBudget /\ cleanupStaleConnections(t, stale)
    \/ \E t \in StateCallers, a \in StateAddresses : GetConnectionState(t, a)

SpecStates == Init /\ [][NextStates]_vars

SettledStates == {"DISCONNECTED", "CONNECTED"}

\* C37: with no call in progress every state of the table is DISCONNECTED or
\* CONNECTED; getConnectionState returns no other state; no entry is FAILED.
C37_OnlySettledStates ==
    /\ (stopPc = "idle" /\ \A t \in Threads : cmPc[t] = "idle")
          => \A a \in DOMAIN connectionStates_ : connectionStates_[a] \in SettledStates
    /\ cmRet.op = "getConnectionState" => cmRet.value \in SettledStates
    /\ \A a \in DOMAIN connectionStates_ : connectionStates_[a] # "FAILED"

\* A thread is between the two stores of its connect or disconnect after a
\* getConnectionState has returned.
C37_Witness ==
    /\ cmRet.op = "getConnectionState"
    /\ cmRet.value = "CONNECTED"
    /\ \E a \in DOMAIN connectionStates_ :
          connectionStates_[a] \in {"CONNECTING", "DISCONNECTING"}

(***************************************************************************)
(* VirtualSocket: connect, listen, accept, close and the receive queue.    *)
(* A return of false is 0, of true 1.                                      *)
(***************************************************************************)
NonSocketVars ==
    <<now, loopVars, connVars, nmVars, schedVars, fragVars, cmVars, cmStepVars,
      mhVars, lockVars, stopVars, codecVars>>

\* VirtualSocket::connect(address, port)
VsConnect ==
    /\ IF ~isBound_ \/ isConnected_
       THEN /\ vsRet' = [op |-> "connect", value |-> 0]
            /\ UNCHANGED isConnected_
       ELSE /\ isConnected_' = TRUE
            /\ vsRet' = [op |-> "connect", value |-> 1]
    /\ UNCHANGED <<isListening_, receiveQueue_, vsVars, NonSocketVars>>

\* VirtualSocket::listen(backlog)
VsListen ==
    /\ IF ~isBound_ \/ isConnected_
       THEN /\ vsRet' = [op |-> "listen", value |-> 0]
            /\ UNCHANGED isListening_
       ELSE /\ isListening_' = TRUE
            /\ vsRet' = [op |-> "listen", value |-> 1]
    /\ UNCHANGED <<isConnected_, receiveQueue_, vsVars, NonSocketVars>>

\* VirtualSocket::accept(): makes another socket and leaves this one alone.
VsAccept ==
    /\ vsRet' = [op |-> "accept", value |-> IF isListening_ THEN 1 ELSE 0]
    /\ UNCHANGED <<isConnected_, isListening_, receiveQueue_, vsVars, NonSocketVars>>

\* VirtualSocket::processPacket(packet)
ProcessPacket(data) ==
    /\ receiveQueue_' = Append(receiveQueue_, data)
    /\ UNCHANGED <<isConnected_, isListening_, vsRet, vsVars, NonSocketVars>>

\* VirtualSocket::close()
VsClose ==
    /\ isBound_' = FALSE
    /\ isConnected_' = FALSE
    /\ isListening_' = FALSE
    /\ sendQueues_' = [p \in VirtualPriority |-> <<>>]
    /\ receiveQueue_' = <<>>
    /\ vsRet' = [op |-> "close", value |-> 1]
    /\ UNCHANGED <<simulationEnabled_, networkCondition_, statistics_,
                   sequenceCounter, lastBandwidthUpdate_, bytesInCurrentWindow_,
                   vsPc, vsPacket, vsSteps, vsDropped, NonSocketVars>>

\* VirtualSocket::resetStatistics()
ResetStatistics ==
    /\ statistics_ # NoStatistics
    /\ statistics_' = NoStatistics
    /\ UNCHANGED <<isBound_, simulationEnabled_, networkCondition_, sendQueues_,
                   sequenceCounter, lastBandwidthUpdate_, bytesInCurrentWindow_,
                   vsPc, vsPacket, vsSteps, vsDropped, vsSocketVars, NonSocketVars>>

\* A socket that is not bound, with the simulation off: the other members
\* hold what the storage held.
InitUnbound == InitSocket /\ ~isBound_ /\ ~simulationEnabled_

\* The packets received in a run.
ReceiveBudget == Len(receiveQueue_) < MaxReceived

NextSocket ==
    \/ VsBind
    \/ VsConnect
    \/ VsListen
    \/ VsAccept
    \/ VsClose
    \/ \E c \in VsConditions : sequenceCounter = 0 /\ SetNetworkCondition(c)
    \/ \E d \in VsPayloads, p \in VsPriorities : VsSendBudget /\ SendTo(1, d, p)
    \/ PushPacket(1)
    \/ CountPacket(1)
    \/ \E d \in VsPayloads : ReceiveBudget /\ ProcessPacket(d)

SpecSocket == InitUnbound /\ [][NextSocket]_vars

\* C38: a connected socket is bound and a listening socket is bound; bind on
\* a bound socket, and connect on a connected or unbound socket, return false
\* and change nothing; close leaves the socket unbound, not connected, not
\* listening, with every queue empty.
C38_SocketFlags ==
    /\ [](isConnected_ => isBound_)
    /\ [](isListening_ => isBound_)
    /\ [][(vsRet'.op = "bind" /\ isBound_ /\ vsRet' # vsRet)
             => vsRet'.value = 0 /\ UNCHANGED <<vsVars, isConnected_, isListening_,
                                                receiveQueue_>>]_vars
    /\ [][(vsRet'.op = "connect" /\ (isConnected_ \/ ~isBound_) /\ vsRet' # vsRet)
             => vsRet'.value = 0 /\ UNCHANGED <<vsVars, isConnected_, isListening_,
                                                receiveQueue_>>]_vars
    /\ [][(vsRet'.op = "close" /\ vsRet' # vsRet)
             => /\ ~isBound_' /\ ~isConnected_' /\ ~isListening_'
                /\ receiveQueue_' = <<>>
                /\ \A p \in VirtualPriority : sendQueues_'[p] = <<>>]_vars

\* The statistics start at zero.
InitZeroStatistics == InitSendSocket /\ statistics_ = NoStatistics

NextStatistics ==
    \/ sequenceCounter = 0 /\ ~isBound_ /\ VsBind
    \/ \E c \in VsConditions : sequenceCounter = 0 /\ SetNetworkCondition(c)
    \/ \E b \in BOOLEAN : sequenceCounter = 0 /\ EnableSimulation(b)
    \/ \E d \in VsPayloads, p \in VsPriorities : VsSendBudget /\ SendTo(1, d, p)
    \/ \E r \in Rolls : SimulatePacketLoss(1, r)
    \/ \E r \in Rolls, ri \in Rolls, rb \in Rolls : SimulateCorruption(1, r, ri, rb)
    \/ \E r \in Rolls : SimulateLatency(1, r)
    \/ \E r \in Rolls : SimulateReordering(1, r)
    \/ UpdateBandwidth(1)
    \/ PushPacket(1)
    \/ CountPacket(1)
    \/ vsPc[1] = "idle" /\ ResetStatistics

SpecStatistics == InitZeroStatistics /\ [][NextStatistics]_vars

\* C39: the packets sent are those received and those lost, no more packets
\* are corrupted than received, no more bytes received than sent; a sendTo on
\* a socket that is not bound, or with data above the MTU, returns -1 and
\* changes no counter, no queue and not the sequence counter, and only such
\* a sendTo returns -1.
C39_StatisticsBalance ==
    /\ [](/\ statistics_.packetsSent
                = statistics_.packetsReceived + statistics_.packetsLost
          /\ statistics_.packetsCorrupted <= statistics_.packetsReceived
          /\ statistics_.bytesReceived <= statistics_.bytesSent)
    /\ [][(vsRet'.op = "sendTo" /\ vsRet' # vsRet)
             => UNCHANGED <<statistics_, sendQueues_, sequenceCounter>>]_vars
    /\ [][(vsPc[1] = "idle" /\ vsPc'[1] # "idle")
             => /\ isBound_
                /\ Len(vsPacket'[1].data) <= networkCondition_.mtu
                /\ vsRet' = vsRet]_vars

\* A packet was lost, another was received corrupted, and a sendTo has
\* returned -1.
C39_Witness ==
    /\ statistics_.packetsLost > 0
    /\ statistics_.packetsCorrupted > 0
    /\ vsRet.op = "sendTo"

=============================================================================
